---------------------------- MODULE Spec2Model ----------------------------
(***************************************************************************)
(* Model of lockfree_accum<Buf, Val> (src/lockfree_accum.h) driven by one  *)
(* producer thread calling accum() and one consumer thread calling         *)
(* report()/reset(), with Buf = test_buf (src/test_lockfree_accum.cpp).    *)
(* Every atomic access to m_state and every Buf operation is one step.     *)
(*                                                                         *)
(* Model of reflist<T> (src/reflist.h) with its iterators and reverse      *)
(* views, over elements that delete themselves in last_unref               *)
(* (src/test_reflist.cpp); every call on the list or on an iterator is one *)
(* step.                                                                   *)
(*                                                                         *)
(* Model of refptr<T> and weakptr<T> (src/refptr.h) over targets that are  *)
(* ref_owned or ref_guarded and weak_target, as in src/test_refptr.cpp;    *)
(* every constructor, assignment, reset and destructor is one step.        *)
(*                                                                         *)
(* The three models share no state: a step of one leaves the variables of  *)
(* the others unchanged.                                                   *)
(***************************************************************************)
EXTENDS Integers, Sequences, FiniteSets, TLC

(* ------------------------------ bounds -------------------------------- *)

\* number of accum() calls the producer makes; call k passes the value k
NumVals == 4

\* number of element objects that are ever created
MaxElems == 3
\* largest number of slots m_fwd_items and m_rev_items hold together
MaxLen == 3
\* number of iterator variables the client keeps
MaxIters == 2
\* number of target objects that are ever created
MaxTargets == 2
\* number of refptr variables and of weakptr variables the client keeps
MaxRefs == 3
MaxWeak == 3

(* --------------------------- state encoding --------------------------- *)

EMPTY_EMPTY     == 0
ACCUM_EMPTY     == 1
VALID_EMPTY     == 2
VALID_ACCUM     == 3
REPORT_EMPTY    == 4
REPORT_ACCUM    == 5
REPORT_VALID    == 6
EMPTY_EMPTY_ALT == 8
EMPTY_ACCUM     == 9
EMPTY_VALID     == 10
ACCUM_VALID     == 11
EMPTY_REPORT    == 12
ACCUM_REPORT    == 13
VALID_REPORT    == 14

\* the enumerators of the state enum
Codes == {0, 1, 2, 3, 4, 5, 6, 8, 9, 10, 11, 12, 13, 14}

\* the enumerators' names read as <<status of slot 0, status of slot 1>>
StateTable ==
    [c \in Codes |->
        CASE c = EMPTY_EMPTY     -> <<"EMPTY", "EMPTY">>
          [] c = ACCUM_EMPTY     -> <<"ACCUM", "EMPTY">>
          [] c = VALID_EMPTY     -> <<"VALID", "EMPTY">>
          [] c = VALID_ACCUM     -> <<"VALID", "ACCUM">>
          [] c = REPORT_EMPTY    -> <<"REPORT", "EMPTY">>
          [] c = REPORT_ACCUM    -> <<"REPORT", "ACCUM">>
          [] c = REPORT_VALID    -> <<"REPORT", "VALID">>
          [] c = EMPTY_EMPTY_ALT -> <<"EMPTY", "EMPTY">>
          [] c = EMPTY_ACCUM     -> <<"EMPTY", "ACCUM">>
          [] c = EMPTY_VALID     -> <<"EMPTY", "VALID">>
          [] c = ACCUM_VALID     -> <<"ACCUM", "VALID">>
          [] c = EMPTY_REPORT    -> <<"EMPTY", "REPORT">>
          [] c = ACCUM_REPORT    -> <<"ACCUM", "REPORT">>
          [] c = VALID_REPORT    -> <<"VALID", "REPORT">>]

\* status of slot i (0 or 1) in code c
SlotStatus(c, i) == StateTable[c][i + 1]

\* slots of code c that have status st
SlotsWith(c, st) == {i \in {0, 1} : SlotStatus(c, i) = st}

(* ------------------------- uint8_t arithmetic ------------------------- *)

U8(n) == n % 256

RECURSIVE Xor(_, _)
Xor(a, b) ==
    IF a = 0 /\ b = 0 THEN 0
    ELSE (((a % 2) + (b % 2)) % 2) + 2 * Xor(a \div 2, b \div 2)

Shr3(s) == s \div 8

(* ------------------- expressions of accum/report/reset ---------------- *)

\* accum(): codes the entry assertion excludes
AccumEntryBad ==
    {ACCUM_EMPTY, VALID_ACCUM, REPORT_ACCUM, EMPTY_ACCUM, ACCUM_VALID, ACCUM_REPORT}

\* accum(), valid/report case: CMPXCHG target and buffer index
\* variant: the CMPXCHG steps the word the wrong way
AccumANew_Up(s) == U8(s + 1)
AccumANew(s) == U8(s - 1)
\* variant: the index of the current slot instead of the other one
AccumAValidIdx_NoFlip(s) == Shr3(s)
AccumAValidIdx(s) == Xor(Shr3(s), 1)

\* accum(), valid/empty case: first CMPXCHG target, indexes, second target
AccumBNew(s) == U8(s + 1)
AccumBValidIdx(s) == Shr3(s)
AccumBEmptyIdx(s) == Xor(Shr3(s), 1)
AccumBSwapNew(s) == Xor(U8(s - 1), 8)

\* accum(), no valid buffer: index of the buffer to fill
AccumCEmptyIdx(s) == Xor(Shr3(s), 1)

\* ++m_state and --m_state
Incr(s) == U8(s + 1)
Decr_Keep(s) == s
Decr(s) == U8(s - 1)

\* accum(), no valid buffer: codes the case handles
AccumCCodes == {EMPTY_EMPTY, REPORT_EMPTY, EMPTY_EMPTY_ALT, EMPTY_REPORT}

AfterValidIncr == {VALID_EMPTY, REPORT_VALID, EMPTY_VALID, VALID_REPORT}
AfterDecr == {EMPTY_EMPTY, REPORT_EMPTY, EMPTY_EMPTY_ALT, EMPTY_REPORT}
AfterClaimIncr == {ACCUM_EMPTY, REPORT_ACCUM, EMPTY_ACCUM, ACCUM_REPORT}

\* report(): codes the entry assertion excludes, loop condition, CAS target
ReportEntryBad ==
    {REPORT_EMPTY, REPORT_ACCUM, REPORT_VALID, EMPTY_REPORT, ACCUM_REPORT, VALID_REPORT}
\* variant: the loop condition misses the codes with an ACCUM slot
ReportLoopCodes_NoAccum == {VALID_EMPTY, EMPTY_VALID}
ReportLoopCodes == {VALID_EMPTY, VALID_ACCUM, EMPTY_VALID, ACCUM_VALID}
\* variant: the CAS adds the value of the REPORT bit instead of 2
ReportNew_Four(s) == U8(s + 4)
ReportNew(s) == U8(s + 2)
ReportValidIdx(s) == Shr3(s)

\* reset(): codes the entry assertion requires, and the new state word
ResetEntryOk ==
    {REPORT_EMPTY, REPORT_ACCUM, REPORT_VALID, EMPTY_REPORT, ACCUM_REPORT, VALID_REPORT}
\* variant: the XOR clears bit 2 only
ResetNew_Four(s) == Xor(s, 4)
ResetNew(s) == Xor(s, 12)

(* --------------------------- test_buf --------------------------------- *)

\* a default-constructed test_buf
NewBuf == [data |-> <<>>, accumulating |-> FALSE, reporting |-> FALSE]

\* test_buf::operator= : assertions, then the copy of data
BufAssignOk(dst, src) == ~dst.accumulating /\ ~src.accumulating /\ ~dst.reporting
BufAssign(dst, src) == [dst EXCEPT !.data = src.data]

\* test_buf::accum : assertions, then the part up to the sleep, then the end
BufAccumOk(b) == ~b.accumulating /\ ~b.reporting
BufAccumBegin(b, v) == [b EXCEPT !.accumulating = TRUE, !.data = Append(@, v)]
BufAccumEnd(b) == [b EXCEPT !.accumulating = FALSE]

\* test_buf::report : assertions, then the flag
BufReportOk(b) == ~b.accumulating /\ ~b.reporting
BufReport(b) == [b EXCEPT !.reporting = TRUE]

\* test_buf::reset
BufReset(b) == [b EXCEPT !.data = <<>>, !.reporting = FALSE]

(* ------------------------------ state --------------------------------- *)

VARIABLES
    m_state,      \* lockfree_accum::m_state
    m_bufs,       \* lockfree_accum::m_bufs, indexed 0..1
    pPC,          \* producer: position inside accum(), "idle" between calls
    pState,       \* accum(): local "state"
    pVal,         \* accum(): argument "val" (0 between calls)
    pNext,        \* worker loop: number of accum() calls started so far
    valid_idx,    \* accum(): local valid_idx
    empty_idx,    \* accum(): local empty_idx
    cPC,          \* consumer: position inside report()/reset()
    cState,       \* report()/reset(): local "state"
    cHandle,      \* slot whose buffer report() handed out, -1 if none
    cRet,         \* result of the last report(): "none", "null" or "handle"
    snapshot,     \* contents read through the handle when report() returned
    failed,       \* name of the assertion that aborted the program, or "none"
    bufOp,        \* history: Buf operation performed by the last step
    pSteps,       \* history: steps taken by the current accum() call
    pCas,         \* history: CMPXCHGs of the current accum() call, by case
    pDirty,       \* history: a report() CAS succeeded during this accum()
    pAborted,     \* history: values of the accum() calls whose second
                  \*          CMPXCHG in the valid/empty case failed
    overlap,      \* history: some step ran while the other thread was in a call
    doneClean,    \* history: values accumulated by calls that started and
                  \*          returned since the last successful report() CAS
    sinceReport,  \* history: values of the accum() calls that returned since
                  \*          the last successful report() CAS, in order
    cMust,        \* history: doneClean at the successful CAS of this report()
    cExpect,      \* history: sinceReport at the successful CAS of this report()
    cStarted,     \* history: pNext at the successful CAS of this report()
    cAfterDone,   \* history: this report() was called after the worker finished
    cWrote        \* history: this report() changed m_state

VARIABLES
    m_fwd_items,   \* reflist::m_fwd_items, a sequence of elements, 0 = null
    m_rev_items,   \* reflist::m_rev_items, in reverse order
    m_cached_size, \* reflist::m_cached_size
    l_refcount,    \* the list's refcounted::m_refcount
    iters,         \* the client's iterator variables (reflist::iter)
    views,         \* number of live reverse_view objects
    e_state,       \* per element: "unborn", "alive" or "deleted"
    e_refcount,    \* per element: refcounted::m_refcount
    ext,           \* per element: does the client hold a refptr to it
    e_unrefs,      \* history: calls of last_unref per element
    alist,         \* history: the elements by the calls that put them in
    lop,           \* history: the last step if it was reflist::remove
    l_state,       \* the list object: "live" or "destroyed"
    o_state,       \* a second list object: "unborn", "live" or "destroyed"
    o_fwd_items,   \* its m_fwd_items
    o_rev_items,   \* its m_rev_items
    o_cached_size, \* its m_cached_size
    lfailed        \* name of the assertion that aborted the program, or "none"

\* the second list object and the lifetime of the first
lifeVars == <<l_state, o_state, o_fwd_items, o_rev_items, o_cached_size,
              lfailed>>
listVars == <<m_fwd_items, m_rev_items, m_cached_size, l_refcount, iters,
              views, e_state, e_refcount, ext, e_unrefs, alist, lop, lifeVars>>

VARIABLES
    t_state,       \* per target: "unborn", "owned", "guarded" (both alive,
                   \*             by what last_unref does) or "destroyed"
    t_refcount,    \* per target: refcounted::m_refcount
    t_weak_head,   \* per target: weak_target::m_weak_head, 0 = null
    srefs,         \* the client's refptr variables: live, m_ptr
    wrefs,         \* the client's weakptr variables: live, m_ptr, next
    p_unrefs,      \* history: the last_unref calls of the last step, in order
    pop,           \* history: the last call on a refptr, and the weakptrs
                   \* whose target the last step destroyed
    pfailed        \* name of the assertion that aborted the program, or "none"

ptrVars == <<t_state, t_refcount, t_weak_head, srefs, wrefs, p_unrefs, pop,
            pfailed>>

prodVars == <<pPC, pState, pVal, pNext, valid_idx, empty_idx>>
consVars == <<cPC, cState, cHandle, cRet, snapshot>>
prodHist == <<pSteps, pCas, pDirty, pAborted>>
consHist == <<cMust, cExpect, cStarted, cAfterDone, cWrote>>
accumVars == <<m_state, m_bufs, prodVars, consVars, failed, bufOp, prodHist,
               overlap, doneClean, sinceReport, consHist>>
vars == <<accumVars, listVars, ptrVars>>

NoOp == [kind |-> "none", idx |-> -1]
Op(k, i) == [kind |-> k, idx |-> i]

\* the element objects and the client's iterator variables
Elems == 1..MaxElems
Iters == 1..MaxIters

\* an iterator variable that holds no iterator
NoIter == [live |-> FALSE, m_start |-> 0, m_end |-> 0, m_idx |-> 0, m_dir |-> 1,
           m_val |-> 0]
\* history of a call of reflist::remove: its argument, its result, and the
\* vectors when its temporaries were about to be destroyed
NoLop == [kind |-> "none", e |-> 0, ret |-> FALSE, midF |-> <<>>, midR |-> <<>>]

\* reflist() {} and no element, iterator or view yet
ListInit ==
    /\ m_fwd_items = <<>> /\ m_rev_items = <<>> /\ m_cached_size = 0
    /\ l_refcount = 0
    /\ iters = [i \in Iters |-> NoIter]
    /\ views = 0
    /\ e_state = [e \in Elems |-> "unborn"]
    /\ e_refcount = [e \in Elems |-> 0]
    /\ ext = [e \in Elems |-> FALSE]
    /\ e_unrefs = [e \in Elems |-> 0]
    /\ l_state = "live" /\ lfailed = "none"
    /\ o_state = "unborn"
    /\ o_fwd_items = <<>> /\ o_rev_items = <<>> /\ o_cached_size = 0
    /\ alist = <<>>
    /\ lop = NoLop

\* the target objects and the client's refptr and weakptr variables
Targets == 1..MaxTargets
SRefs == 1..MaxRefs
WRefs == 1..MaxWeak

\* a refptr / weakptr variable that holds no object
NoRef == [live |-> FALSE, m_ptr |-> 0]
NoWeak == [live |-> FALSE, m_ptr |-> 0, next |-> 0]
\* no call recorded
NoPop == [kind |-> "none", d |-> 0, r |-> 0, old |-> 0, was |-> {}]

\* no target, refptr or weakptr yet
PtrInit ==
    /\ t_state = [t \in Targets |-> "unborn"]
    /\ t_refcount = [t \in Targets |-> 0]
    /\ t_weak_head = [t \in Targets |-> 0]
    /\ srefs = [r \in SRefs |-> NoRef]
    /\ wrefs = [w \in WRefs |-> NoWeak]
    /\ p_unrefs = <<>>
    /\ pop = NoPop
    /\ pfailed = "none"

Init ==
    /\ ListInit
    /\ PtrInit
    /\ m_state = EMPTY_EMPTY
    /\ m_bufs = [i \in {0, 1} |-> NewBuf]
    /\ pPC = "idle" /\ pState = 0 /\ pVal = 0 /\ pNext = 0
    /\ valid_idx = 0 /\ empty_idx = 0
    /\ cPC = "idle" /\ cState = 0 /\ cHandle = -1 /\ cRet = "none"
    /\ snapshot = <<>>
    /\ failed = "none"
    /\ bufOp = NoOp
    /\ pSteps = 0 /\ pCas = [A |-> 0, B |-> 0] /\ pDirty = FALSE
    /\ pAborted = {}
    /\ overlap = FALSE
    /\ doneClean = {} /\ sinceReport = <<>>
    /\ cMust = {} /\ cExpect = <<>> /\ cStarted = 0 /\ cAfterDone = FALSE
    /\ cWrote = FALSE

\* the consumer is inside a report() or reset() call
ConsumerInCall == cPC \in {"r_loop", "r_buf", "x_xor"}
\* the producer is inside an accum() call
ProducerInCall == pPC # "idle"
\* the worker thread has made all its calls and the last one has returned
ProducerDone == pPC = "idle" /\ pNext = NumVals

(* ------------------------- producer: accum() -------------------------- *)

\* history kept by every producer step
PStep(op) ==
    /\ bufOp' = op
    /\ pAborted' = IF pPC = "B_swap" /\ m_state # U8(pState + 1)
                   THEN pAborted \cup {pVal} ELSE pAborted
    /\ overlap' = (overlap \/ ConsumerInCall)
    /\ pSteps' = pSteps + 1

\* what no producer step changes
PFrame == UNCHANGED <<pNext, pDirty, cMust, cExpect, cStarted, cAfterDone, cWrote, consVars,
                      listVars, ptrVars>>

\* accum() returns
AccumReturn ==
    /\ pPC' = "idle"
    /\ pVal' = 0 /\ valid_idx' = 0 /\ empty_idx' = 0
    /\ doneClean' = IF pDirty THEN doneClean ELSE doneClean \cup {pVal}
    /\ sinceReport' = Append(sinceReport, pVal)

\* the worker calls accum(pNext + 1): load of m_state and the entry assertion
AccumLoad ==
    /\ failed = "none" /\ pPC = "idle" /\ pNext < NumVals
    /\ pNext' = pNext + 1
    /\ pVal' = pNext + 1
    /\ pState' = m_state
    /\ failed' = IF m_state \in AccumEntryBad THEN "accum_entry" ELSE "none"
    /\ pPC' = "a_casA"
    /\ pSteps' = 1
    /\ pCas' = [A |-> 0, B |-> 0]
    /\ pDirty' = FALSE
    /\ bufOp' = NoOp
    /\ overlap' = (overlap \/ ConsumerInCall)
    /\ UNCHANGED <<m_state, m_bufs, valid_idx, empty_idx, doneClean, sinceReport,
                   pAborted, consVars, consHist, listVars, ptrVars>>

\* if ((state == REPORT_VALID || state == VALID_REPORT) && CMPXCHG(state, state - 1))
AccumCasA ==
    /\ failed = "none" /\ pPC = "a_casA"
    /\ IF pState \in {REPORT_VALID, VALID_REPORT}
       THEN /\ pCas' = [pCas EXCEPT !.A = @ + 1]
            /\ IF m_state = pState
               THEN /\ m_state' = AccumANew(pState)
                    /\ valid_idx' = AccumAValidIdx(pState)
                    /\ pPC' = "A_accum"
                    /\ UNCHANGED pState
               ELSE /\ pState' = m_state
                    /\ pPC' = "a_casB"
                    /\ UNCHANGED <<m_state, valid_idx>>
       ELSE /\ pPC' = "a_casB"
            /\ UNCHANGED <<m_state, pState, valid_idx, pCas>>
    /\ PStep(NoOp)
    /\ PFrame
    /\ UNCHANGED <<m_bufs, pVal, empty_idx, failed, doneClean, sinceReport>>

\* m_bufs[i].accum(val), up to the sleep
DoBufAccumBegin(i, next) ==
    /\ failed = "none"
    /\ failed' = IF BufAccumOk(m_bufs[i]) THEN "none" ELSE "buf_accum"
    /\ m_bufs' = [m_bufs EXCEPT ![i] = BufAccumBegin(@, pVal)]
    /\ pPC' = next
    /\ PStep(Op("accum", i))
    /\ PFrame
    /\ UNCHANGED <<m_state, pState, pVal, valid_idx, empty_idx, pCas,
                   doneClean, sinceReport>>

\* m_bufs[i].accum(val), end of the call
DoBufAccumEnd(i, next) ==
    /\ failed = "none"
    /\ m_bufs' = [m_bufs EXCEPT ![i] = BufAccumEnd(@)]
    /\ pPC' = next
    /\ PStep(Op("accum", i))
    /\ PFrame
    /\ UNCHANGED <<m_state, pState, pVal, valid_idx, empty_idx, pCas, failed,
                   doneClean, sinceReport>>

\* m_bufs[i].reset()
DoBufReset(i, next) ==
    /\ failed = "none"
    /\ m_bufs' = [m_bufs EXCEPT ![i] = BufReset(@)]
    /\ pPC' = next
    /\ PStep(Op("reset", i))
    /\ PFrame
    /\ UNCHANGED <<m_state, pState, pVal, valid_idx, empty_idx, pCas, failed,
                   doneClean, sinceReport>>

\* state = ++m_state; assert(state is a ..._VALID code); return
DoIncrValid ==
    /\ failed = "none"
    /\ m_state' = Incr(m_state)
    /\ pState' = Incr(m_state)
    /\ failed' = IF Incr(m_state) \in AfterValidIncr THEN "none" ELSE "accum_valid"
    /\ AccumReturn
    /\ PStep(NoOp)
    /\ PFrame
    /\ UNCHANGED <<m_bufs, pCas>>

\* valid/report case
AccumA_BufAccum == pPC = "A_accum" /\ DoBufAccumBegin(valid_idx, "A_accum_end")
AccumA_BufAccumEnd == pPC = "A_accum_end" /\ DoBufAccumEnd(valid_idx, "A_incr")
AccumA_Incr == pPC = "A_incr" /\ DoIncrValid

\* if ((state == VALID_EMPTY || state == EMPTY_VALID) && CMPXCHG(state, state + 1))
AccumCasB ==
    /\ failed = "none" /\ pPC = "a_casB"
    /\ IF pState \in {VALID_EMPTY, EMPTY_VALID}
       THEN /\ pCas' = [pCas EXCEPT !.B = @ + 1]
            /\ IF m_state = pState
               THEN /\ m_state' = AccumBNew(pState)
                    /\ valid_idx' = AccumBValidIdx(pState)
                    /\ empty_idx' = AccumBEmptyIdx(pState)
                    /\ pPC' = "B_reset"
                    /\ UNCHANGED pState
               ELSE /\ pState' = m_state
                    /\ pPC' = "C_check"
                    /\ UNCHANGED <<m_state, valid_idx, empty_idx>>
       ELSE /\ pPC' = "C_check"
            /\ UNCHANGED <<m_state, pState, valid_idx, empty_idx, pCas>>
    /\ PStep(NoOp)
    /\ PFrame
    /\ UNCHANGED <<m_bufs, pVal, failed, doneClean, sinceReport>>

\* valid/empty case
AccumB_BufReset == pPC = "B_reset" /\ DoBufReset(empty_idx, "B_copy")

\* m_bufs[empty_idx] = m_bufs[valid_idx]
AccumB_BufCopy ==
    /\ failed = "none" /\ pPC = "B_copy"
    /\ failed' = IF BufAssignOk(m_bufs[empty_idx], m_bufs[valid_idx])
                 THEN "none" ELSE "buf_assign"
    /\ m_bufs' = [m_bufs EXCEPT ![empty_idx] = BufAssign(@, m_bufs[valid_idx])]
    /\ pPC' = "B_accum"
    /\ PStep(Op("copy", empty_idx))
    /\ PFrame
    /\ UNCHANGED <<m_state, pState, pVal, valid_idx, empty_idx, pCas,
                   doneClean, sinceReport>>

AccumB_BufAccum == pPC = "B_accum" /\ DoBufAccumBegin(empty_idx, "B_accum_end")
AccumB_BufAccumEnd == pPC = "B_accum_end" /\ DoBufAccumEnd(empty_idx, "B_swap")

\* variant: a failed second CMPXCHG re-reads the word and rebuilds the copy
AccumB_CasSwap_Retry ==
    /\ failed = "none" /\ pPC = "B_swap"
    /\ pCas' = [pCas EXCEPT !.B = @ + 1]
    /\ IF m_state = U8(pState + 1)
       THEN /\ m_state' = AccumBSwapNew(U8(pState + 1))
            /\ pState' = U8(pState + 1)
            /\ AccumReturn
       ELSE /\ pState' = pState
            /\ pPC' = "B_reset"
            /\ UNCHANGED <<m_state, pVal, valid_idx, empty_idx, doneClean, sinceReport>>
    /\ PStep(NoOp)
    /\ PFrame
    /\ UNCHANGED <<m_bufs, failed>>

\* state++; if (CMPXCHG(state, (state - 1) ^ 8)) return;
AccumB_CasSwap ==
    /\ failed = "none" /\ pPC = "B_swap"
    /\ pCas' = [pCas EXCEPT !.B = @ + 1]
    /\ IF m_state = U8(pState + 1)
       THEN /\ m_state' = AccumBSwapNew(U8(pState + 1))
            /\ pState' = U8(pState + 1)
            /\ AccumReturn
       ELSE /\ pState' = m_state
            /\ pPC' = "B_decr"
            /\ UNCHANGED <<m_state, pVal, valid_idx, empty_idx, doneClean, sinceReport>>
    /\ PStep(NoOp)
    /\ PFrame
    /\ UNCHANGED <<m_bufs, failed>>

\* variant: after the decrement accum() returns, the value is not accumulated
AccumB_Decr_Drop ==
    /\ failed = "none" /\ pPC = "B_decr"
    /\ m_state' = Decr(m_state)
    /\ pState' = Decr(m_state)
    /\ failed' = IF Decr(m_state) \in AfterDecr THEN "none" ELSE "accum_decr"
    /\ AccumReturn
    /\ PStep(NoOp)
    /\ PFrame
    /\ UNCHANGED <<m_bufs, pCas>>
\* state = --m_state; assert(state is a code with an empty buffer and no valid one)
AccumB_Decr ==
    /\ failed = "none" /\ pPC = "B_decr"
    /\ m_state' = Decr(m_state)
    /\ pState' = Decr(m_state)
    /\ failed' = IF Decr(m_state) \in AfterDecr THEN "none" ELSE "accum_decr"
    /\ pPC' = "C_check"
    /\ PStep(NoOp)
    /\ PFrame
    /\ UNCHANGED <<m_bufs, pVal, valid_idx, empty_idx, pCas, doneClean, sinceReport>>

\* if (state is EMPTY_EMPTY, REPORT_EMPTY, EMPTY_EMPTY_ALT or EMPTY_REPORT)
\*     empty_idx = (state >> 3) ^ 1;  else assert(false);
AccumC_Check ==
    /\ failed = "none" /\ pPC = "C_check"
    /\ IF pState \in AccumCCodes
       THEN /\ empty_idx' = AccumCEmptyIdx(pState)
            /\ pPC' = "C_claim"
            /\ UNCHANGED failed
       ELSE /\ failed' = "accum_else"
            /\ UNCHANGED <<empty_idx, pPC>>
    /\ PStep(NoOp)
    /\ PFrame
    /\ UNCHANGED <<m_state, m_bufs, pState, pVal, valid_idx, pCas, doneClean, sinceReport>>

\* state = ++m_state; assert(state is an ..._ACCUM code)
AccumC_Claim ==
    /\ failed = "none" /\ pPC = "C_claim"
    /\ m_state' = Incr(m_state)
    /\ pState' = Incr(m_state)
    /\ failed' = IF Incr(m_state) \in AfterClaimIncr THEN "none" ELSE "accum_claim"
    /\ pPC' = "C_reset"
    /\ PStep(NoOp)
    /\ PFrame
    /\ UNCHANGED <<m_bufs, pVal, valid_idx, empty_idx, pCas, doneClean, sinceReport>>

AccumC_BufReset == pPC = "C_reset" /\ DoBufReset(empty_idx, "C_accum")
AccumC_BufAccum == pPC = "C_accum" /\ DoBufAccumBegin(empty_idx, "C_accum_end")
AccumC_BufAccumEnd == pPC = "C_accum_end" /\ DoBufAccumEnd(empty_idx, "C_incr")
AccumC_Incr == pPC = "C_incr" /\ DoIncrValid

Producer ==
    \/ AccumLoad \/ AccumCasA
    \/ AccumA_BufAccum \/ AccumA_BufAccumEnd \/ AccumA_Incr
    \/ AccumCasB
    \/ AccumB_BufReset \/ AccumB_BufCopy \/ AccumB_BufAccum \/ AccumB_BufAccumEnd
    \/ AccumB_CasSwap \/ AccumB_Decr
    \/ AccumC_Check \/ AccumC_Claim
    \/ AccumC_BufReset \/ AccumC_BufAccum \/ AccumC_BufAccumEnd \/ AccumC_Incr

(* --------------------- consumer: report(), reset() -------------------- *)

\* history kept by every consumer step
CStep(op) ==
    /\ bufOp' = op
    /\ overlap' = (overlap \/ ProducerInCall)

\* what no consumer step changes
CFrame == UNCHANGED <<prodVars, pSteps, pCas, pAborted, listVars, ptrVars>>

\* the consumer calls report(): load of m_state and the entry assertion
ReportLoad ==
    /\ failed = "none" /\ cPC = "idle"
    /\ cState' = m_state
    /\ failed' = IF m_state \in ReportEntryBad THEN "report_entry" ELSE "none"
    /\ cPC' = "r_loop"
    /\ cRet' = "none"
    /\ cAfterDone' = ProducerDone
    /\ cWrote' = FALSE
    /\ CStep(NoOp)
    /\ CFrame
    /\ UNCHANGED <<m_state, m_bufs, cHandle, snapshot, pDirty, doneClean,
                   sinceReport, cMust, cExpect, cStarted>>

\* variant: a failed CMPXCHG leaves the local state as it was
ReportCas_NoReload ==
    /\ failed = "none" /\ cPC = "r_loop"
    /\ cState \in ReportLoopCodes
    /\ IF m_state = cState
       THEN /\ m_state' = ReportNew(cState)
            /\ cHandle' = ReportValidIdx(cState)
            /\ cPC' = "r_buf"
            /\ cWrote' = TRUE
            /\ cMust' = doneClean
            /\ cExpect' = sinceReport
            /\ cStarted' = pNext
            /\ doneClean' = {}
            /\ sinceReport' = <<>>
            /\ pDirty' = (pDirty \/ ProducerInCall)
            /\ UNCHANGED cState
       ELSE /\ UNCHANGED <<m_state, cState, cHandle, cPC, cWrote, cMust, cExpect,
                           cStarted, doneClean, sinceReport, pDirty>>
    /\ CStep(NoOp)
    /\ CFrame
    /\ UNCHANGED <<m_bufs, cRet, snapshot, failed, cAfterDone>>
\* while (state has a valid buffer) { if (!CMPXCHG(state, state + 2)) continue; ...
ReportCas ==
    /\ failed = "none" /\ cPC = "r_loop"
    /\ cState \in ReportLoopCodes
    /\ IF m_state = cState
       THEN /\ m_state' = ReportNew(cState)
            /\ cHandle' = ReportValidIdx(cState)
            /\ cPC' = "r_buf"
            /\ cWrote' = TRUE
            /\ cMust' = doneClean
            /\ cExpect' = sinceReport
            /\ cStarted' = pNext
            /\ doneClean' = {}
            /\ sinceReport' = <<>>
            /\ pDirty' = (pDirty \/ ProducerInCall)
            /\ UNCHANGED cState
       ELSE /\ cState' = m_state
            /\ UNCHANGED <<m_state, cHandle, cPC, cWrote, cMust, cExpect, cStarted,
                           doneClean, sinceReport, pDirty>>
    /\ CStep(NoOp)
    /\ CFrame
    /\ UNCHANGED <<m_bufs, cRet, snapshot, failed, cAfterDone>>

\* return nullptr;
ReportNull ==
    /\ failed = "none" /\ cPC = "r_loop"
    /\ cState \notin ReportLoopCodes
    /\ cPC' = "idle"
    /\ cRet' = "null"
    /\ CStep(NoOp)
    /\ CFrame
    /\ UNCHANGED <<m_state, m_bufs, cState, cHandle, snapshot, failed, pDirty,
                   doneClean, sinceReport, consHist>>

\* return &m_bufs[valid_idx].report();
ReportBuf ==
    /\ failed = "none" /\ cPC = "r_buf"
    /\ failed' = IF BufReportOk(m_bufs[cHandle]) THEN "none" ELSE "buf_report"
    /\ m_bufs' = [m_bufs EXCEPT ![cHandle] = BufReport(@)]
    /\ snapshot' = m_bufs[cHandle].data
    /\ cRet' = "handle"
    /\ cPC' = "holding"
    /\ CStep(Op("report", cHandle))
    /\ CFrame
    /\ UNCHANGED <<m_state, cState, cHandle, pDirty, doneClean, sinceReport, consHist>>

\* the consumer calls reset(): load of m_state and the entry assertion
ResetLoad ==
    /\ failed = "none" /\ cPC = "holding"
    /\ cState' = m_state
    /\ failed' = IF m_state \in ResetEntryOk THEN "none" ELSE "reset_entry"
    /\ cPC' = "x_xor"
    /\ CStep(NoOp)
    /\ CFrame
    /\ UNCHANGED <<m_state, m_bufs, cHandle, cRet, snapshot, pDirty, doneClean,
                   sinceReport, consHist>>

\* m_state ^= 12;
ResetXor ==
    /\ failed = "none" /\ cPC = "x_xor"
    /\ m_state' = ResetNew(m_state)
    /\ cPC' = "idle"
    /\ cHandle' = -1
    /\ cRet' = "none"
    /\ snapshot' = <<>>
    /\ CStep(NoOp)
    /\ CFrame
    /\ UNCHANGED <<m_bufs, cState, failed, pDirty, doneClean, sinceReport, consHist>>

Consumer ==
    \/ ReportLoad \/ ReportCas \/ ReportNull \/ ReportBuf
    \/ ResetLoad \/ ResetXor

Next == Producer \/ Consumer

Spec == Init /\ [][Next]_vars

\* the consumer thread is scheduled again and again: a call of report() or
\* reset() that can take a step takes it; nothing is assumed of the worker
FairSpec == Spec /\ WF_vars(Consumer)

(* ------------------------------ claims -------------------------------- *)

Range(q) == {q[k] : k \in 1..Len(q)}

\* report() has returned a handle and the program has not aborted
Reported == cRet = "handle" /\ failed = "none"

\* C1 (no lost completed accum): the snapshot of a successful report()
\* contains every value whose accum() call started after the previous
\* successful report() CAS and returned before this report()'s CAS.
C1_NoLostAccum == Reported => cMust \subseteq Range(snapshot)

\* C2 (sequential result): when no accum() call has overlapped a report() or
\* reset() call, a successful report() returns exactly the values passed to
\* the accum() calls made since the previous successful report(), in order
\* (so their sum: 1, 2, 3 gives 6).
C2_SequentialResult == (Reported /\ ~overlap) => snapshot = cExpect

\* C3 (snapshot stability): while a slot is handed out (from the successful
\* CAS of report() to the XOR of reset()) no step performs Buf::reset,
\* Buf::accum or a copy-assignment into that slot, and the contents read
\* through the handle stay what they were when report() returned.
C3_SnapshotStable ==
    /\ (cHandle # -1 /\ bufOp.kind \in {"reset", "accum", "copy"})
          => bufOp.idx # cHandle
    /\ (cPC \in {"holding", "x_xor"} /\ failed = "none")
          => m_bufs[cHandle].data = snapshot

C3_Witness ==
    /\ cPC = "holding" /\ failed = "none"
    /\ bufOp.kind \in {"reset", "accum", "copy"}
    /\ snapshot # <<>>

\* C4 (no double-claim): the state word always decodes by the state table,
\* and the decoded pair has at most one ACCUM slot and at most one REPORT slot.
C4_NoDoubleClaim ==
    /\ m_state \in DOMAIN StateTable
    /\ Cardinality(SlotsWith(m_state, "ACCUM")) <= 1
    /\ Cardinality(SlotsWith(m_state, "REPORT")) <= 1

C4_Witness ==
    /\ SlotsWith(m_state, "ACCUM") # {}
    /\ SlotsWith(m_state, "REPORT") # {}
    /\ pPC = "B_decr"

\* C5 (state-word well-formedness): at every step, also inside accum(), the
\* state word and the copies of it held by accum(), report() and reset() are
\* among 0,1,2,3,4,5,6,8,9,10,11,12,13,14.
C5_WellFormed ==
    /\ m_state \in {0, 1, 2, 3, 4, 5, 6, 8, 9, 10, 11, 12, 13, 14}
    /\ pState \in {0, 1, 2, 3, 4, 5, 6, 8, 9, 10, 11, 12, 13, 14}
    /\ cState \in {0, 1, 2, 3, 4, 5, 6, 8, 9, 10, 11, 12, 13, 14}

C5_Witness == m_state = EMPTY_EMPTY_ALT /\ pPC = "C_check" /\ pCas.B = 2

\* C6 (null report): report() leaves its loop with the last read state in
\* {0,1,8,9} or {2,3,10,11}; it returns null exactly in the first case, and
\* then it has not changed the state word; with a state in {2,3,10,11} its
\* next step is the CAS, which succeeds (state + 2) or re-reads the word.
C6_ReportNullExact ==
    [][ /\ (cPC = "r_loop" /\ cPC' # "r_loop") =>
              /\ cState \in {0, 1, 8, 9} \cup {2, 3, 10, 11}
              /\ (cRet' = "null") <=> (cState \in {0, 1, 8, 9})
              /\ (cRet' = "null") => (m_state' = m_state /\ ~cWrote /\ cPC' = "idle")
              /\ (cRet' # "null") => (cPC' = "r_buf" /\ m_state' = cState + 2)
        /\ (cPC = "r_loop" /\ cState \in {2, 3, 10, 11} /\ cPC' = "r_loop"
               /\ cState' # cState) => (cState' = m_state /\ m_state' = m_state)
      ]_vars

C6_Witness == cRet = "null" /\ cState \in {1, 9} /\ cPC = "idle" /\ m_state \in {2, 10}

\* C7 (reset frame): the XOR of reset() runs with exactly one REPORT slot,
\* makes that slot EMPTY, keeps the other slot's status (EMPTY, ACCUM or
\* VALID), leaves no REPORT slot, and changes neither buffer.
C7_ResetEffect ==
    [][ (cPC = "x_xor" /\ cPC' = "idle") =>
           /\ m_state \in Codes /\ m_state' \in Codes
           /\ \E r \in {0, 1} :
                 /\ SlotsWith(m_state, "REPORT") = {r}
                 /\ SlotStatus(m_state', r) = "EMPTY"
                 /\ SlotStatus(m_state', 1 - r) = SlotStatus(m_state, 1 - r)
                 /\ SlotStatus(m_state, 1 - r) \in {"EMPTY", "ACCUM", "VALID"}
           /\ SlotsWith(m_state', "REPORT") = {}
           /\ m_bufs' = m_bufs
      ]_vars

C7_Witness == m_state = EMPTY_ACCUM /\ pPC \in {"A_accum", "A_accum_end", "A_incr"}

\* C8 (wait-free accum): an accum() call takes at most 15 steps, with at
\* most one CMPXCHG in the valid/report case and at most two in the
\* valid/empty case, and while it has not returned its next step is enabled
\* whatever the consumer's position.
C8_WaitFree ==
    /\ pSteps <= 15
    /\ pCas.A <= 1 /\ pCas.B <= 2
    /\ (pPC # "idle" /\ failed = "none") => ENABLED Producer

C8_Witness == pSteps = 15 /\ pPC = "idle" /\ pCas.B = 2

\* C9 (snapshot shape): a snapshot is an increasing sequence of values passed
\* to accum() (in call order, none twice), all from calls started before the
\* report()'s successful CAS; and a report() called after the worker has
\* finished returns a snapshot containing the last value.
C9_SnapshotShape ==
    Reported =>
       /\ \A j, k \in 1..Len(snapshot) : j < k => snapshot[j] < snapshot[k]
       /\ \A k \in 1..Len(snapshot) : snapshot[k] \in 1..cStarted
       /\ cAfterDone => NumVals \in Range(snapshot)

\* C10 (Buf assertions): no assertion of test_buf fails: Buf::report is not
\* called on a buffer already handed out and not reset since, Buf::accum and
\* the copy-assignment do not target such a buffer, and no Buf operation
\* starts on a buffer while Buf::accum is running on it.
C10_BufAssertsHold == failed \notin {"buf_accum", "buf_assign", "buf_report"}

\* C22 (Buf operations only under ACCUM): when a step of accum() performs
\* Buf::reset, Buf::accum or a copy-assignment into slot i, the state word
\* at that moment, decoded by the state table, gives slot i the status
\* ACCUM.
C22_BufUnderAccum ==
    (failed = "none" /\ bufOp.kind \in {"reset", "accum", "copy"})
        => SlotStatus(m_state, bufOp.idx) = "ACCUM"

\* C23 as stated (lost update on aborted copy): a value whose accum() call
\* built the copy and failed its final CMPXCHG is dropped: it appears in no
\* later snapshot.
C23_Dropped == Reported => Range(snapshot) \cap pAborted = {}

\* the accum() call returns in this step
C23_Returns == pPC # "idle" /\ pPC' = "idle"

\* C23, amended: when the final CMPXCHG of the copy case fails, the copy is
\* discarded (the decrement marks its slot EMPTY again) but the value is
\* not dropped: the same call goes on to the no-valid-buffer case, resets
\* the slot it picks there, accumulates the value into it and returns with
\* the state word marking a slot VALID, so that buffer holds exactly that
\* value when the call returns.
C23_Reaccumulated ==
    [][/\ AccumB_Decr => (pVal \in pAborted /\ m_state' \in {0, 4, 8, 12})
       /\ (C23_Returns /\ pVal \in pAborted) =>
              /\ failed' = "none" =>
                     m_state' \in {VALID_EMPTY, REPORT_VALID, EMPTY_VALID,
                                   VALID_REPORT}
              /\ m_bufs'[empty_idx].data = <<pVal>>]_vars

\* a report() has handed out a buffer that holds exactly one value, that of
\* a call whose copy was discarded
C23_Witness ==
    /\ failed = "none" /\ cPC = "holding"
    /\ \E v \in pAborted : snapshot = <<v>>

\* report() reads the state word in this step: the load at entry, or a
\* CMPXCHG that fails
C26_Reads == ReportLoad \/ (ReportCas /\ m_state # cState)

\* what report() has read is the state word; while report() is in its loop
\* with an up-to-date local state, only a step of the producer makes the
\* two differ; a report() called after the worker has finished succeeds in
\* every CMPXCHG it tries, so in its first
C26_FailsByProducer ==
    /\ C26_Reads => cState' = m_state'
    /\ (cPC = "r_loop" /\ cPC' = "r_loop" /\ cState = m_state
           /\ cState' # m_state')
          => (UNCHANGED consVars /\ pSteps' # pSteps /\ pPC # "idle")
    /\ (ReportCas /\ cAfterDone) => (m_state = cState /\ cPC' = "r_buf")
    /\ (ReportBuf /\ failed' = "none") => cRet' = "handle"

\* C26 (report progress): a CMPXCHG inside report() fails only if the
\* producer changed the state word since report() last read it; if the
\* producer takes only finitely many steps, every report() call eventually
\* returns a handle or null (or the program has aborted in an assertion);
\* with a VALID slot and an idle producer report() returns a handle on its
\* first CMPXCHG.
C26_ReportProgress ==
    /\ [][C26_FailsByProducer]_vars
    /\ (cPC \in {"r_loop", "r_buf"}) ~> (cRet # "none" \/ failed # "none")

\* report() is in its loop with a local state the producer has overtaken:
\* the CMPXCHG it tries next fails, and the word still has a VALID slot
C26_Witness ==
    /\ failed = "none" /\ cPC = "r_loop"
    /\ cState \in ReportLoopCodes /\ m_state \in ReportLoopCodes
    /\ m_state # cState

\* the assertions of accum()
C27_AccumFailures ==
    {"accum_entry", "accum_valid", "accum_decr", "accum_claim", "accum_else"}

\* no assertion of accum() has failed, and between two accum() calls no slot
\* is in ACCUM
C27_NoneFailed ==
    /\ failed \notin C27_AccumFailures
    /\ pPC = "idle" => m_state \notin {1, 3, 5, 7, 9, 11, 13, 15}

\* the codes each asserting step of accum() meets or leaves
C27_Codes ==
    /\ AccumLoad => m_state \notin {1, 3, 5, 7, 9, 11, 13, 15}
    /\ (AccumA_Incr \/ AccumC_Incr) => m_state' \in {2, 6, 10, 14}
    /\ AccumB_Decr => m_state' \in {0, 4, 8, 12}
    /\ AccumC_Claim => m_state' \in {1, 5, 9, 13}
    /\ AccumC_Check => (pPC' = "C_claim" /\ failed' = "none")

\* C27 (accum's assertions): under every interleaving with the consumer no
\* assertion of accum() fails: at entry no slot is ACCUM, the increment
\* that ends accumulation yields a code in {2, 6, 10, 14}, the decrement
\* after a failed second CMPXCHG a code in {0, 4, 8, 12}, the claiming
\* increment a code in {1, 5, 9, 13}, and the final else branch is never
\* taken.
C27_AccumAsserts == []C27_NoneFailed /\ [][C27_Codes]_vars

\* a later accum() call whose second CMPXCHG failed has passed the entry
\* assertion, the one after the decrement, the case selection and the one
\* after the claiming increment
C27_Witness ==
    /\ failed = "none" /\ pPC = "C_reset"
    /\ pVal \in pAborted /\ pNext >= 2
    /\ m_state \in {1, 5, 9, 13}


(* ============================== reflist =============================== *)

\* <climits>
INT_MAX == 2147483647
INT_MIN == (-2147483647) - 1

Max(a, b) == IF a >= b THEN a ELSE b
Min(a, b) == IF a <= b THEN a ELSE b

\* reflist::start_idx, reflist::end_idx
StartIdx(R) == -Len(R)
EndIdx(F) == Len(F)

\* reflist::at with m_rev_items read from its front
At_RevFromFront(F, R, idx) ==
    IF idx >= 0 THEN F[idx + 1] ELSE R[Len(R) + 1 + idx]
\* reflist::at: (idx >= 0) ? m_fwd_items.at(idx) : m_rev_items.at(-1 - idx)
At(F, R, idx) ==
    IF idx >= 0 THEN F[idx + 1] ELSE R[(-1 - idx) + 1]

\* the forward scan of find_valid parking at its end bound when it finds
\* nothing
RECURSIVE ScanFwd_PlainEnd(_, _, _, _)
ScanFwd_PlainEnd(F, R, idx, end) ==
    IF idx < end
    THEN IF At(F, R, idx) # 0
         THEN [m_idx |-> idx, m_val |-> At(F, R, idx)]
         ELSE ScanFwd_PlainEnd(F, R, idx + 1, end)
    ELSE [m_idx |-> end, m_val |-> 0]
\* the loops of iter::find_valid; the result is the new m_idx and m_val
RECURSIVE ScanFwd(_, _, _, _)
ScanFwd(F, R, idx, end) ==
    IF idx < end
    THEN IF At(F, R, idx) # 0
         THEN [m_idx |-> idx, m_val |-> At(F, R, idx)]
         ELSE ScanFwd(F, R, idx + 1, end)
    ELSE [m_idx |-> INT_MAX - 1, m_val |-> 0]

RECURSIVE ScanRev(_, _, _, _)
ScanRev(F, R, idx, start) ==
    IF idx >= start
    THEN IF At(F, R, idx) # 0
         THEN [m_idx |-> idx, m_val |-> At(F, R, idx)]
         ELSE ScanRev(F, R, idx - 1, start)
    ELSE [m_idx |-> INT_MIN + 1, m_val |-> 0]

\* iter::find_valid ignoring the bounds the iterator has captured
FindValid_Unbounded(F, R, start, end, idx, dir) ==
    IF dir > 0
    THEN ScanFwd(F, R, Max(idx, StartIdx(R)), EndIdx(F))
    ELSE ScanRev(F, R, Min(idx, EndIdx(F) - 1), StartIdx(R))
\* iter::find_valid(dir) of an iterator with bounds start, end at index idx
FindValid(F, R, start, end, idx, dir) ==
    IF dir > 0
    THEN ScanFwd(F, R, Max(idx, start), end)
    ELSE ScanRev(F, R, Min(idx, end - 1), start)

\* std::remove that fills a hole with the last element
RECURSIVE RemoveVal_Unordered(_, _)
RemoveVal_Unordered(s, v) ==
    IF s = <<>> THEN <<>>
    ELSE IF Head(s) = v
         THEN IF Len(s) = 1 THEN <<>>
              ELSE RemoveVal_Unordered(
                       <<s[Len(s)]>> \o SubSeq(s, 2, Len(s) - 1), v)
         ELSE <<Head(s)>> \o RemoveVal_Unordered(Tail(s), v)
\* util::remove(list, val): std::remove + erase
RECURSIVE RemoveVal(_, _)
RemoveVal(s, v) ==
    IF s = <<>> THEN <<>>
    ELSE IF Head(s) = v THEN RemoveVal(Tail(s), v)
         ELSE <<Head(s)>> \o RemoveVal(Tail(s), v)

\* reflist::last_unref on vectors F, R and m_cached_size c
LastUnref(F, R, c) ==
    IF EndIdx(F) - StartIdx(R) > c
    THEN [F |-> RemoveVal(F, 0), R |-> RemoveVal(R, 0),
          c |-> EndIdx(RemoveVal(F, 0)) - StartIdx(RemoveVal(R, 0)),
          compacted |-> TRUE]
    ELSE [F |-> F, R |-> R, c |-> c, compacted |-> FALSE]

\* the list loses one reference but last_unref runs at any count
ListUnref_Unguarded(F, R, c, rc) ==
    LET u == LastUnref(F, R, c)
    IN  [F |-> u.F, R |-> u.R, c |-> u.c, rc |-> rc - 1, unref |-> TRUE,
         compacted |-> u.compacted]
\* ref_base::reset() of a reference to the list: m_refcount--, and
\* last_unref() when it reaches 0
ListUnref(F, R, c, rc) ==
    IF rc - 1 = 0
    THEN LET u == LastUnref(F, R, c)
         IN  [F |-> u.F, R |-> u.R, c |-> u.c, rc |-> 0, unref |-> TRUE,
              compacted |-> u.compacted]
    ELSE [F |-> F, R |-> R, c |-> c, rc |-> rc - 1, unref |-> FALSE,
          compacted |-> FALSE]

\* the elements' counts, states and last_unref calls as one value
World == [rc |-> e_refcount, st |-> e_state, un |-> e_unrefs]
SetWorld(W) == e_refcount' = W.rc /\ e_state' = W.st /\ e_unrefs' = W.un

\* ref_base::reset, the part for the new pointee: if (ptr) ptr->m_refcount++
Acquire(W, e) == IF e = 0 THEN W ELSE [W EXCEPT !.rc[e] = @ + 1]
\* ref_base::reset, the part for the old pointee: m_refcount--, and at 0
\* last_unref(), which for an element is "delete this"
Release(W, e) ==
    IF e = 0 THEN W
    ELSE IF W.rc[e] - 1 = 0
         THEN [W EXCEPT !.rc[e] = 0, !.st[e] = "deleted", !.un[e] = @ + 1]
         ELSE [W EXCEPT !.rc[e] = @ - 1]

\* the vectors with the slot at logical index idx set to v
SetF(F, idx, v) == IF idx >= 0 THEN [F EXCEPT ![idx + 1] = v] ELSE F
SetR(R, idx, v) == IF idx >= 0 THEN R ELSE [R EXCEPT ![(-1 - idx) + 1] = v]

\* what no call on the list changes
LFrame == UNCHANGED <<accumVars, ptrVars, lifeVars>>

\* the element a "new test(...)" creates: the first one not created yet
Fresh(e) == e_state[e] = "unborn" /\ \A d \in Elems : d < e => e_state[d] # "unborn"

\* the argument of append/prepend and what passing it does to the counts:
\* a raw "new test", a copy of the client's refptr, or that refptr moved
ArgOk(e, how) ==
    CASE how = "new" -> Fresh(e)
      [] how = "copy" -> ext[e]
      [] how = "move" -> ext[e]
ArgWorld(e, how) ==
    CASE how = "new" -> [World EXCEPT !.st[e] = "alive", !.rc[e] = 1]
      [] how = "copy" -> Acquire(World, e)
      [] how = "move" -> World
ArgExt(e, how) == IF how = "move" THEN [ext EXCEPT ![e] = FALSE] ELSE ext

\* refptr<test> a{new test("a")}
ExtNew(e) ==
    /\ Fresh(e)
    /\ SetWorld([World EXCEPT !.st[e] = "alive", !.rc[e] = 1])
    /\ ext' = [ext EXCEPT ![e] = TRUE]
    /\ lop' = NoLop
    /\ UNCHANGED <<m_fwd_items, m_rev_items, m_cached_size, l_refcount, iters,
                   views, alist>>
    /\ LFrame

\* the client's refptr goes away: ~ref_base -> reset()
ExtDrop(e) ==
    /\ ext[e]
    /\ SetWorld(Release(World, e))
    /\ ext' = [ext EXCEPT ![e] = FALSE]
    /\ lop' = NoLop
    /\ UNCHANGED <<m_fwd_items, m_rev_items, m_cached_size, l_refcount, iters,
                   views, alist>>
    /\ LFrame

\* reflist::prepend: m_rev_items.emplace_back(ptr)
ListPrepend(e, how) ==
    /\ ArgOk(e, how)
    /\ Len(m_fwd_items) + Len(m_rev_items) < MaxLen
    /\ m_rev_items' = Append(m_rev_items, e)
    /\ SetWorld(ArgWorld(e, how))
    /\ ext' = ArgExt(e, how)
    /\ alist' = <<e>> \o alist
    /\ lop' = NoLop
    /\ UNCHANGED <<m_fwd_items, m_cached_size, l_refcount, iters, views>>
    /\ LFrame

\* reflist::append putting the pointer in front of m_fwd_items
ListAppend_Front(e, how) ==
    /\ ArgOk(e, how)
    /\ Len(m_fwd_items) + Len(m_rev_items) < MaxLen
    /\ m_fwd_items' = <<e>> \o m_fwd_items
    /\ SetWorld(ArgWorld(e, how))
    /\ ext' = ArgExt(e, how)
    /\ alist' = Append(alist, e)
    /\ lop' = NoLop
    /\ UNCHANGED <<m_rev_items, m_cached_size, l_refcount, iters, views>>
    /\ LFrame
\* reflist::append: m_fwd_items.emplace_back(ptr)
ListAppend(e, how) ==
    /\ ArgOk(e, how)
    /\ Len(m_fwd_items) + Len(m_rev_items) < MaxLen
    /\ m_fwd_items' = Append(m_fwd_items, e)
    /\ SetWorld(ArgWorld(e, how))
    /\ ext' = ArgExt(e, how)
    /\ alist' = Append(alist, e)
    /\ lop' = NoLop
    /\ UNCHANGED <<m_rev_items, m_cached_size, l_refcount, iters, views>>
    /\ LFrame

\* the slots in logical order, first to last, and the elements among them
Reverse(q) == [k \in 1..Len(q) |-> q[Len(q) + 1 - k]]
Slots(F, R) == Reverse(R) \o F
NonNull(F, R) == SelectSeq(Slots(F, R), LAMBDA v : v # 0)
\* history: alist without the entry for the slot at logical index idx
Forget(F, R, idx) ==
    LET pos == idx - StartIdx(R) + 1
        n == Cardinality({k \in 1..(pos - 1) : Slots(F, R)[k] # 0}) + 1
    IN  SubSeq(alist, 1, n - 1) \o SubSeq(alist, n + 1, Len(alist))

\* iter::iter(list, idx, dir) stored in the client's variable i; the client
\* uses variable i only while the variables before it are in use
NewIter(i, idx, dir) ==
    /\ ~iters[i].live
    /\ \A j \in Iters : j < i => iters[j].live
    /\ LET start == StartIdx(m_rev_items)
           end == EndIdx(m_fwd_items)
           fv == FindValid(m_fwd_items, m_rev_items, start, end, idx, dir)
       IN  /\ iters' = [iters EXCEPT ![i] =
                  [live |-> TRUE, m_start |-> start, m_end |-> end,
                   m_idx |-> fv.m_idx, m_dir |-> dir, m_val |-> fv.m_val]]
           /\ SetWorld(Acquire(World, fv.m_val))
    /\ l_refcount' = l_refcount + 1
    /\ lop' = NoLop
    /\ UNCHANGED <<m_fwd_items, m_rev_items, m_cached_size, views, ext, alist>>
    /\ LFrame

\* reflist::begin, end, rbegin, rend
IterBegin(i) == NewIter(i, StartIdx(m_rev_items), 1)
IterEnd(i) == NewIter(i, EndIdx(m_fwd_items), 1)
IterRBegin(i) == NewIter(i, EndIdx(m_fwd_items) - 1, -1)
IterREnd(i) == NewIter(i, StartIdx(m_rev_items) - 1, -1)

\* m_val.reset(); m_idx = idx; find_valid(m_dir), the body of ++ and --
IterMove(i, idx) ==
    /\ iters[i].live
    /\ LET it == iters[i]
           fv == FindValid(m_fwd_items, m_rev_items, it.m_start, it.m_end,
                           idx, it.m_dir)
       IN  /\ iters' = [iters EXCEPT ![i].m_idx = fv.m_idx,
                                     ![i].m_val = fv.m_val]
           /\ SetWorld(Acquire(Release(World, it.m_val), fv.m_val))
    /\ lop' = NoLop
    /\ UNCHANGED <<m_fwd_items, m_rev_items, m_cached_size, l_refcount, views,
                   ext, alist>>
    /\ LFrame

\* iter::operator++
IterInc(i) == IterMove(i, iters[i].m_idx + iters[i].m_dir)
\* iter::operator--
IterDec(i) == IterMove(i, iters[i].m_idx - iters[i].m_dir)

\* iter::remove() on the client's iterator i; the client then lets the
\* returned pointer go ("drop"), stores it in its own refptr ("keep") or
\* hands it to append() ("append"), as test_reflist.cpp does
IterRemove(i, then) ==
    /\ iters[i].live
    /\ LET it == iters[i]
           F == m_fwd_items
           R == m_rev_items
           p == IF it.m_val # 0 THEN At(F, R, it.m_idx) ELSE 0
           F1 == IF it.m_val # 0 THEN SetF(F, it.m_idx, 0) ELSE F
           R1 == IF it.m_val # 0 THEN SetR(R, it.m_idx, 0) ELSE R
           W1 == Release(World, it.m_val)
           a1 == IF p # 0 THEN Forget(F, R, it.m_idx) ELSE alist
       IN  /\ iters' = [iters EXCEPT ![i].m_val = 0]
           /\ CASE then = "drop" ->
                     /\ m_fwd_items' = F1
                     /\ SetWorld(Release(W1, p))
                     /\ ext' = ext
                     /\ alist' = a1
                [] then = "keep" ->
                     /\ p # 0 /\ ~ext[p]
                     /\ m_fwd_items' = F1
                     /\ SetWorld(W1)
                     /\ ext' = [ext EXCEPT ![p] = TRUE]
                     /\ alist' = a1
                [] then = "append" ->
                     /\ p # 0
                     /\ m_fwd_items' = Append(F1, p)
                     /\ SetWorld(W1)
                     /\ ext' = ext
                     /\ alist' = Append(a1, p)
           /\ m_rev_items' = R1
           /\ lop' = NoLop
    /\ then = "append" => Len(m_fwd_items) + Len(m_rev_items) < MaxLen
    /\ UNCHANGED <<m_cached_size, l_refcount, views>>
    /\ LFrame

\* ~iter: m_val is released, then the reference to the list
IterDestroy(i) ==
    /\ iters[i].live
    /\ LET u == ListUnref(m_fwd_items, m_rev_items, m_cached_size, l_refcount)
       IN  /\ m_fwd_items' = u.F /\ m_rev_items' = u.R
           /\ m_cached_size' = u.c /\ l_refcount' = u.rc
           /\ lop' = NoLop
    /\ SetWorld(Release(World, iters[i].m_val))
    /\ iters' = [iters EXCEPT ![i] = NoIter]
    /\ UNCHANGED <<views, ext, alist>>
    /\ LFrame

\* reflist::reversed(): a reverse_view, which holds a ref<reflist>
Reversed ==
    /\ views = 0
    /\ views' = 1
    /\ l_refcount' = l_refcount + 1
    /\ lop' = NoLop
    /\ UNCHANGED <<m_fwd_items, m_rev_items, m_cached_size, iters, e_state,
                   e_refcount, ext, e_unrefs, alist>>
    /\ LFrame

\* ~reverse_view
ViewDestroy ==
    /\ views = 1
    /\ views' = 0
    /\ LET u == ListUnref(m_fwd_items, m_rev_items, m_cached_size, l_refcount)
       IN  /\ m_fwd_items' = u.F /\ m_rev_items' = u.R
           /\ m_cached_size' = u.c /\ l_refcount' = u.rc
           /\ lop' = NoLop
    /\ UNCHANGED <<iters, e_state, e_refcount, ext, e_unrefs, alist>>
    /\ LFrame

\* util::find_ptr that goes on to the last element equal to ptr
RECURSIVE FindPtr_Last(_, _, _, _)
FindPtr_Last(F, R, b, x) ==
    IF b.m_val = 0 THEN b
    ELSE LET rest == FindPtr_Last(F, R,
                         FindValid(F, R, StartIdx(R), EndIdx(F), b.m_idx + 1, 1),
                         x)
         IN  IF rest.m_val = x THEN rest
             ELSE IF b.m_val = x THEN b ELSE rest
\* util::find_ptr(start, ptr) on an iterator over the whole list at b
RECURSIVE FindPtr(_, _, _, _)
FindPtr(F, R, b, x) ==
    IF b.m_val = 0 \/ b.m_val = x THEN b
    ELSE FindPtr(F, R,
                 FindValid(F, R, StartIdx(R), EndIdx(F), b.m_idx + 1, 1), x)

\* reflist::remove(ptr): (bool)util::find_ptr(begin(), ptr).remove(), then
\* the temporaries go: the returned pointer, then the iterators, so the
\* list's count returns to what it was and last_unref runs if that is 0.
\* The iterators take and give back one reference to each element they
\* stop at, which changes no count in the end.
ListRemove(x) ==
    /\ e_state[x] = "alive"
    /\ LET F == m_fwd_items
           R == m_rev_items
           b == FindValid(F, R, StartIdx(R), EndIdx(F), StartIdx(R), 1)
           f == FindPtr(F, R, b, x)
           p == IF f.m_val # 0 THEN At(F, R, f.m_idx) ELSE 0
           F1 == IF f.m_val # 0 THEN SetF(F, f.m_idx, 0) ELSE F
           R1 == IF f.m_val # 0 THEN SetR(R, f.m_idx, 0) ELSE R
           u == ListUnref(F1, R1, m_cached_size, l_refcount + 1)
       IN  /\ m_fwd_items' = u.F /\ m_rev_items' = u.R
           /\ m_cached_size' = u.c /\ l_refcount' = u.rc
           /\ SetWorld(Release(World, p))
           /\ alist' = IF p # 0 THEN Forget(F, R, f.m_idx) ELSE alist
           /\ lop' = [kind |-> "remove", e |-> x, ret |-> (p # 0),
                       midF |-> F1, midR |-> R1]
    /\ UNCHANGED <<iters, views, ext>>
    /\ LFrame

Hows == {"new", "copy", "move"}

\* a client that iterates forward with up to MaxIters iterators at a time
\* and creates each element as it puts it into the list
IterNext ==
    \/ \E e \in Elems : ListAppend(e, "new")
    \/ \E e \in Elems : ListPrepend(e, "new")
    \/ \E e \in Elems : ListRemove(e)
    \/ \E i \in Iters : IterBegin(i)
    \/ \E i \in Iters : IterEnd(i)
    \/ \E i \in Iters : IterInc(i)
    \/ \E i \in Iters, then \in {"drop", "append"} : IterRemove(i, then)
    \/ \E i \in Iters : IterDestroy(i)

SpecIter == Init /\ [][IterNext]_vars

\* a client with one iterator of either direction and a reverse view
ListNext ==
    \/ \E e \in Elems : ListAppend(e, "new")
    \/ \E e \in Elems : ListPrepend(e, "new")
    \/ \E e \in Elems : ListRemove(e)
    \/ IterBegin(1)
    \/ IterEnd(1)
    \/ IterRBegin(1)
    \/ IterREnd(1)
    \/ IterInc(1)
    \/ IterDec(1)
    \/ \E then \in {"drop", "append"} : IterRemove(1, then)
    \/ IterDestroy(1)
    \/ Reversed
    \/ ViewDestroy

SpecList == Init /\ [][ListNext]_vars

\* a client that holds elements in refptrs of its own and uses a reverse
\* view but no iterator
OwnNext ==
    \/ \E e \in Elems : ExtNew(e)
    \/ \E e \in Elems : ExtDrop(e)
    \/ \E e \in Elems, how \in Hows : ListAppend(e, how)
    \/ \E e \in Elems, how \in Hows : ListPrepend(e, how)
    \/ \E e \in Elems : ListRemove(e)
    \/ Reversed
    \/ ViewDestroy

SpecOwn == Init /\ [][OwnNext]_vars

(* ------------- reflist: destruction, assignment and clear -------------- *)

\* ~vector<Ptr>: each pointer of q, first to last, is released
RECURSIVE ReleaseAll(_, _)
ReleaseAll(W, q) ==
    IF q = <<>> THEN W ELSE ReleaseAll(Release(W, Head(q)), Tail(q))

\* emplace_back(it.get()) for each element: each pointer of q is acquired
RECURSIVE AcquireAll(_, _)
AcquireAll(W, q) ==
    IF q = <<>> THEN W ELSE AcquireAll(Acquire(W, Head(q)), Tail(q))

\* ~refcounted that checks nothing
DtorAssert_Off(rc) == "none"
\* ~refcounted: assert(m_refcount == 0)
DtorAssert(rc) == IF rc # 0 THEN "refcount_assert" ELSE "none"

\* reflist(reflist &&list): assert(list.refcount() == 0)
MoveAssert(rc) == IF rc # 0 THEN "move_assert" ELSE "none"

\* the program runs and the list object exists
Usable == lfailed = "none" /\ l_state = "live"

\* what the calls on the list as a whole leave alone
WFrame == UNCHANGED <<accumVars, ptrVars>>

\* ~reflist() on the list: the vectors go, m_rev_items first, then
\* ~refcounted runs its assert
ListDtorWorld == ReleaseAll(ReleaseAll(World, m_rev_items), m_fwd_items)
OtherDtorWorld(W) == ReleaseAll(ReleaseAll(W, o_rev_items), o_fwd_items)

\* the client's list goes out of scope
ListDestroy ==
    /\ Usable
    /\ SetWorld(ListDtorWorld)
    /\ lfailed' = DtorAssert(l_refcount)
    /\ l_state' = "destroyed"
    /\ m_fwd_items' = <<>> /\ m_rev_items' = <<>> /\ alist' = <<>>
    /\ lop' = NoLop
    /\ UNCHANGED <<m_cached_size, l_refcount, iters, views, ext, o_state,
                   o_fwd_items, o_rev_items, o_cached_size>>
    /\ WFrame

\* reflist() {} in the place of a list that was destroyed
ListCreate ==
    /\ lfailed = "none" /\ l_state = "destroyed"
    /\ l_state' = "live"
    /\ m_cached_size' = 0
    /\ lop' = NoLop
    /\ UNCHANGED <<m_fwd_items, m_rev_items, l_refcount, iters, views, e_state,
                   e_refcount, ext, e_unrefs, alist, o_state, o_fwd_items,
                   o_rev_items, o_cached_size, lfailed>>
    /\ WFrame

\* list = list and list = std::move(list): util::reconstruct finds
\* &self == &val and does nothing
ListAssignSelf ==
    /\ Usable
    /\ lop' = NoLop
    /\ UNCHANGED <<m_fwd_items, m_rev_items, m_cached_size, l_refcount, iters,
                   views, e_state, e_refcount, ext, e_unrefs, alist, lifeVars>>
    /\ WFrame

\* list = other: util::reconstruct, that is ~reflist() and then
\* reflist(const reflist &), whose append_all walks other with an iterator;
\* when that iterator goes, other's last_unref runs
ListAssignCopy ==
    /\ Usable /\ o_state = "live"
    /\ lfailed' = DtorAssert(l_refcount)
    /\ lop' = NoLop
    /\ IF l_refcount # 0
       THEN /\ SetWorld(ListDtorWorld)
            /\ l_state' = "destroyed"
            /\ m_fwd_items' = <<>> /\ m_rev_items' = <<>> /\ alist' = <<>>
            /\ UNCHANGED <<m_cached_size, o_fwd_items, o_rev_items,
                           o_cached_size>>
       ELSE LET items == NonNull(o_fwd_items, o_rev_items)
                u == LastUnref(o_fwd_items, o_rev_items, o_cached_size)
            IN  /\ SetWorld(AcquireAll(ListDtorWorld, items))
                /\ m_fwd_items' = items /\ m_rev_items' = <<>>
                /\ m_cached_size' = 0
                /\ alist' = items
                /\ o_fwd_items' = u.F /\ o_rev_items' = u.R
                /\ o_cached_size' = u.c
                /\ l_state' = "live"
    /\ UNCHANGED <<l_refcount, iters, views, ext, o_state>>
    /\ WFrame

\* list = std::move(other): ~reflist() and then reflist(reflist &&)
ListAssignMove ==
    /\ Usable /\ o_state = "live"
    /\ lfailed' = DtorAssert(l_refcount)
    /\ lop' = NoLop
    /\ SetWorld(ListDtorWorld)
    /\ IF l_refcount # 0
       THEN /\ l_state' = "destroyed"
            /\ m_fwd_items' = <<>> /\ m_rev_items' = <<>> /\ alist' = <<>>
            /\ UNCHANGED <<m_cached_size, o_fwd_items, o_rev_items,
                           o_cached_size>>
       ELSE /\ m_fwd_items' = o_fwd_items /\ m_rev_items' = o_rev_items
            /\ m_cached_size' = o_cached_size
            /\ alist' = NonNull(o_fwd_items, o_rev_items)
            /\ o_fwd_items' = <<>> /\ o_rev_items' = <<>>
            /\ o_cached_size' = 0
            /\ l_state' = "live"
    /\ UNCHANGED <<l_refcount, iters, views, ext, o_state>>
    /\ WFrame

\* clear() { *this = reflist(); }
ListClear ==
    /\ Usable
    /\ lfailed' = DtorAssert(l_refcount)
    /\ lop' = NoLop
    /\ SetWorld(ListDtorWorld)
    /\ m_fwd_items' = <<>> /\ m_rev_items' = <<>> /\ alist' = <<>>
    /\ IF l_refcount # 0
       THEN l_state' = "destroyed" /\ UNCHANGED m_cached_size
       ELSE l_state' = "live" /\ m_cached_size' = 0
    /\ UNCHANGED <<l_refcount, iters, views, ext, o_state, o_fwd_items,
                   o_rev_items, o_cached_size>>
    /\ WFrame

\* reflist other(list), or other = list when other exists: other is
\* destroyed first if it exists; append_all walks the list with an
\* iterator, and when that iterator goes the list's count is back where it
\* was and last_unref runs if that is 0
OtherCopy ==
    /\ Usable /\ o_state # "destroyed"
    /\ LET items == NonNull(m_fwd_items, m_rev_items)
           u == ListUnref(m_fwd_items, m_rev_items, m_cached_size,
                          l_refcount + 1)
       IN  /\ SetWorld(AcquireAll(OtherDtorWorld(World), items))
           /\ o_fwd_items' = items /\ o_rev_items' = <<>>
           /\ o_cached_size' = 0
           /\ m_fwd_items' = u.F /\ m_rev_items' = u.R
           /\ m_cached_size' = u.c
    /\ o_state' = "live"
    /\ lop' = NoLop
    /\ UNCHANGED <<l_refcount, iters, views, ext, alist, l_state, lfailed>>
    /\ WFrame

\* reflist other(std::move(list)), or other = std::move(list) when other
\* exists: other is destroyed first if it exists, then the move constructor
\* runs its assert on the list
OtherMove ==
    /\ Usable /\ o_state # "destroyed"
    /\ lfailed' = MoveAssert(l_refcount)
    /\ lop' = NoLop
    /\ SetWorld(OtherDtorWorld(World))
    /\ IF l_refcount # 0
       THEN /\ o_fwd_items' = <<>> /\ o_rev_items' = <<>>
            /\ o_state' = o_state
            /\ UNCHANGED <<m_fwd_items, m_rev_items, m_cached_size, alist,
                           o_cached_size>>
       ELSE /\ o_fwd_items' = m_fwd_items /\ o_rev_items' = m_rev_items
            /\ o_cached_size' = m_cached_size
            /\ o_state' = "live"
            /\ m_fwd_items' = <<>> /\ m_rev_items' = <<>>
            /\ m_cached_size' = 0
            /\ alist' = <<>>
    /\ UNCHANGED <<l_refcount, iters, views, ext, l_state>>
    /\ WFrame

\* a client that appends, removes, holds an iterator and a reverse view,
\* and destroys, assigns, clears and moves the list as a whole
LifeNext ==
    \/ Usable /\ \E e \in Elems : ListAppend(e, "new")
    \/ Usable /\ \E e \in Elems : ListPrepend(e, "new")
    \/ Usable /\ \E e \in Elems : ListRemove(e)
    \/ Usable /\ IterBegin(1)
    \/ Usable /\ IterDestroy(1)
    \/ Usable /\ Reversed
    \/ Usable /\ ViewDestroy
    \/ ListDestroy
    \/ ListCreate
    \/ ListAssignSelf
    \/ ListAssignCopy
    \/ ListAssignMove
    \/ ListClear
    \/ OtherCopy
    \/ OtherMove

SpecLife == Init /\ [][LifeNext]_vars

(* -------------------------- claims: reflist --------------------------- *)

\* the slot at logical index k, read off the vectors laid end to end
SlotAt(F, R, k) == Slots(F, R)[k - StartIdx(R) + 1]
HasIdx(F, R, k) == StartIdx(R) <= k /\ k < EndIdx(F)

\* C11: while an iterator exists, a step that is not a ++ or -- of that
\* iterator (an append, a prepend, a remove by the list or through any
\* iterator) leaves its index and the element it names unchanged, keeps
\* every logical index the list had, and leaves in every slot the element
\* that was there or null.
C11_Unmoved(i) ==
    /\ iters'[i].m_idx = iters[i].m_idx
    /\ iters'[i].m_val \in {iters[i].m_val, 0}
    /\ StartIdx(m_rev_items') <= StartIdx(m_rev_items)
    /\ EndIdx(m_fwd_items') >= EndIdx(m_fwd_items)
    /\ \A k \in StartIdx(m_rev_items)..(EndIdx(m_fwd_items) - 1) :
           SlotAt(m_fwd_items', m_rev_items', k)
               \in {SlotAt(m_fwd_items, m_rev_items, k), 0}
C11_IndexStable ==
    [][\A i \in Iters :
           (iters[i].live /\ iters'[i].live)
               => (IterInc(i) \/ IterDec(i) \/ C11_Unmoved(i))]_vars
\* iterator 1 still names an element that was removed from its slot behind
\* its back, the list has grown since it was created, and iterator 2 exists
C11_Witness ==
    /\ iters[1].live /\ iters[2].live
    /\ iters[1].m_val # 0
    /\ SlotAt(m_fwd_items, m_rev_items, iters[1].m_idx) = 0
    /\ EndIdx(m_fwd_items) > iters[1].m_end
    /\ StartIdx(m_rev_items) < iters[1].m_start

\* C12: a forward iterator keeps the bounds the list had when it was
\* created; the slots inside those bounds only ever change to null; each ++
\* takes it to the least index above its own, inside the bounds, whose slot
\* is non-null at that moment, or past the end; so it stops only at
\* elements that were in the list when it was created, in increasing
\* index, never at one appended or prepended since, and a loop of ++ ends
\* after at most as many stops as the list had slots.
C12_Window(i) == iters[i].m_start..(iters[i].m_end - 1)
C12_InBounds(i) ==
    (iters[i].live /\ iters[i].m_dir = 1) =>
        /\ StartIdx(m_rev_items) <= iters[i].m_start
        /\ iters[i].m_end <= EndIdx(m_fwd_items)
        /\ iters[i].m_idx \in C12_Window(i) \cup {INT_MAX - 1}
        /\ iters[i].m_val # 0 => iters[i].m_idx \in C12_Window(i)
C12_Created(i) ==
    (~iters[i].live /\ iters'[i].live) =>
        /\ iters'[i].m_start = StartIdx(m_rev_items)
        /\ iters'[i].m_end = EndIdx(m_fwd_items)
C12_Kept(i) ==
    (iters[i].live /\ iters'[i].live) =>
        /\ iters'[i].m_start = iters[i].m_start
        /\ iters'[i].m_end = iters[i].m_end
        /\ iters'[i].m_dir = iters[i].m_dir
        /\ \A k \in C12_Window(i) :
               SlotAt(m_fwd_items', m_rev_items', k)
                   \in {SlotAt(m_fwd_items, m_rev_items, k), 0}
C12_Step(i) ==
    (IterInc(i) /\ iters[i].m_dir = 1) =>
        LET ahead == {k \in (iters[i].m_idx + 1)..(iters[i].m_end - 1) :
                          SlotAt(m_fwd_items, m_rev_items, k) # 0}
        IN  IF ahead = {}
            THEN iters'[i].m_idx = INT_MAX - 1 /\ iters'[i].m_val = 0
            ELSE /\ iters'[i].m_idx \in ahead
                 /\ \A k \in ahead : iters'[i].m_idx <= k
                 /\ iters'[i].m_idx > iters[i].m_idx
                 /\ iters'[i].m_val =
                        SlotAt(m_fwd_items, m_rev_items, iters'[i].m_idx)
C12_IterBounds ==
    /\ [](\A i \in Iters : C12_InBounds(i))
    /\ [][\A i \in Iters : C12_Created(i) /\ C12_Kept(i) /\ C12_Step(i)]_vars
\* iterator 1 has run past the end of a list that had two slots when it
\* was created; both are null now and an element sits in a slot appended
\* since, which the iterator did not stop at
C12_Witness ==
    /\ iters[1].live /\ iters[1].m_dir = 1
    /\ iters[1].m_idx = INT_MAX - 1
    /\ iters[1].m_end - iters[1].m_start >= 2
    /\ \A k \in C12_Window(1) : SlotAt(m_fwd_items, m_rev_items, k) = 0
    /\ EndIdx(m_fwd_items) > iters[1].m_end
    /\ SlotAt(m_fwd_items, m_rev_items, iters[1].m_end) # 0

\* C13: the list's refcount is the number of its iterators and reverse
\* views, and a step shortens m_fwd_items or m_rev_items only if it leaves
\* that count at 0, with no iterator and no view left.
Holders == Cardinality({i \in Iters : iters[i].live}) + views
C13_CompactSafe ==
    /\ [](l_refcount = Holders)
    /\ [][(\/ Len(m_fwd_items') < Len(m_fwd_items)
           \/ Len(m_rev_items') < Len(m_rev_items))
              => (l_refcount' = 0 /\ views' = 0
                  /\ \A i \in Iters : ~iters'[i].live)]_vars
\* the list has been compacted before, has grown and holds a null since,
\* and is not compacted because an iterator and a view exist
C13_Witness ==
    /\ m_cached_size > 0
    /\ EndIdx(m_fwd_items) - StartIdx(m_rev_items) > m_cached_size
    /\ \E k \in 1..Len(m_fwd_items) : m_fwd_items[k] = 0
    /\ iters[1].live /\ views = 1

\* the loop "for (auto rp : list)" of to_str and to_str_rev: the elements
\* a fresh iterator stops at, from fv on, stepping by dir
RECURSIVE WalkFrom(_, _, _, _)
WalkFrom(F, R, fv, dir) ==
    IF fv.m_val = 0 THEN <<>>
    ELSE <<fv.m_val>> \o
         WalkFrom(F, R, FindValid(F, R, StartIdx(R), EndIdx(F),
                                  fv.m_idx + dir, dir), dir)
ForwardSeq(F, R) ==
    WalkFrom(F, R, FindValid(F, R, StartIdx(R), EndIdx(F), StartIdx(R), 1), 1)
ReverseSeq(F, R) ==
    WalkFrom(F, R, FindValid(F, R, StartIdx(R), EndIdx(F), EndIdx(F) - 1, -1),
             -1)

\* C14: a step that shortens the vectors (a compaction) leaves no null in
\* them and leaves forward iteration producing the same sequence of
\* elements as just before the compaction: as before the step when an
\* iterator or view was destroyed, as after the slot was nulled when
\* remove() compacted on its way out.
Shortened ==
    \/ Len(m_fwd_items') < Len(m_fwd_items)
    \/ Len(m_rev_items') < Len(m_rev_items)
C14_CompactKeeps ==
    [][/\ (Shortened /\ lop'.kind # "remove") =>
              /\ ForwardSeq(m_fwd_items', m_rev_items')
                     = ForwardSeq(m_fwd_items, m_rev_items)
              /\ \A k \in 1..Len(m_fwd_items') : m_fwd_items'[k] # 0
              /\ \A k \in 1..Len(m_rev_items') : m_rev_items'[k] # 0
       /\ (lop'.kind = "remove"
             /\ Len(m_fwd_items') + Len(m_rev_items')
                    < Len(lop'.midF) + Len(lop'.midR)) =>
              /\ ForwardSeq(m_fwd_items', m_rev_items')
                     = ForwardSeq(lop'.midF, lop'.midR)
              /\ \A k \in 1..Len(m_fwd_items') : m_fwd_items'[k] # 0
              /\ \A k \in 1..Len(m_rev_items') : m_rev_items'[k] # 0]_vars
\* remove() has just compacted away a null that stood before two elements
\* of m_fwd_items
C14_Witness ==
    /\ lop.kind = "remove"
    /\ Len(lop.midF) = 3 /\ lop.midF[1] = 0
    /\ Len(m_fwd_items) = 2
    /\ m_cached_size = 2

\* C15: whenever the list's refcount is 0 (no iterator and no reverse view
\* exists), neither m_fwd_items nor m_rev_items holds a null.
C15_AutoCompact ==
    l_refcount = 0 =>
        /\ \A k \in 1..Len(m_fwd_items) : m_fwd_items[k] # 0
        /\ \A k \in 1..Len(m_rev_items) : m_rev_items[k] # 0

\* C16: alist holds the elements by the calls that put them in, each
\* prepend in front and each append behind, less the removed ones.  Forward
\* iteration yields exactly alist, and reverse iteration yields alist
\* backwards.
C16_IterOrder ==
    /\ ForwardSeq(m_fwd_items, m_rev_items) = alist
    /\ ReverseSeq(m_fwd_items, m_rev_items) = Reverse(alist)
\* two elements were prepended and one appended, and none is removed
C16_Witness ==
    /\ Len(m_rev_items) = 2 /\ Len(m_fwd_items) = 1
    /\ Len(alist) = 3
    /\ alist = <<m_rev_items[2], m_rev_items[1], m_fwd_items[1]>>

\* the positions of x among the slots, and the slots after remove(x) has
\* nulled the first of them
Holding(S, x) == {k \in 1..Len(S) : S[k] = x}
FirstNulled(S, x) ==
    IF Holding(S, x) = {} THEN S
    ELSE [S EXCEPT ![CHOOSE k \in Holding(S, x) :
                         \A j \in Holding(S, x) : k <= j] = 0]
\* what remove(x) returns and what it does to the elements' counts: true
\* exactly when a slot holds x; then x loses one reference, the list's, and
\* nothing else changes; x stays alive, with no last_unref, while the
\* client holds a refptr to it.  No element's last_unref ever runs while
\* the client still holds a refptr to it; it runs when the last reference
\* goes.
C17_Result ==
    lop'.kind = "remove" =>
        LET x == lop'.e
            hit == Holding(Slots(m_fwd_items, m_rev_items), x) # {}
        IN  /\ lop'.ret = hit
            /\ \A e \in Elems \ {x} :
                   e_refcount'[e] = e_refcount[e] /\ e_state'[e] = e_state[e]
            /\ e_refcount'[x] = IF hit THEN e_refcount[x] - 1 ELSE e_refcount[x]
            /\ ext[x] => (e_state'[x] = "alive" /\ e_unrefs'[x] = e_unrefs[x])
C17_Unref ==
    \A e \in Elems :
        /\ e_unrefs'[e] # e_unrefs[e] =>
               (~ext'[e] /\ e_refcount[e] = 1 /\ e_refcount'[e] = 0
                /\ e_unrefs'[e] = e_unrefs[e] + 1)
        /\ (ExtDrop(e) /\ e_refcount[e] = 1) => e_unrefs'[e] = e_unrefs[e] + 1

\* C17 as stated: remove(x) returns true exactly when a slot holds x; the
\* list is then as before with the first such slot nulled and no other slot
\* changed (no slot at all when x is absent); only the list's reference is
\* dropped.
C17_RemoveExact ==
    [][/\ C17_Result
       /\ C17_Unref
       /\ lop'.kind = "remove" =>
              Slots(m_fwd_items', m_rev_items')
                  = FirstNulled(Slots(m_fwd_items, m_rev_items), lop'.e)]_vars

\* C17 amended: as above for the list as remove() leaves it before its
\* temporary iterator is destroyed.  After that the vectors are unchanged
\* if another holder (an iterator or reverse view) exists; if none exists
\* the list may be compacted, which only erases nulls: forward iteration
\* yields the same sequence as before the compaction.
C17_RemoveThenCompact ==
    [][/\ C17_Result
       /\ C17_Unref
       /\ lop'.kind = "remove" =>
              /\ Len(lop'.midF) = Len(m_fwd_items)
              /\ Len(lop'.midR) = Len(m_rev_items)
              /\ Slots(lop'.midF, lop'.midR)
                     = FirstNulled(Slots(m_fwd_items, m_rev_items), lop'.e)
              /\ l_refcount' > 0 =>
                     (m_fwd_items' = lop'.midF /\ m_rev_items' = lop'.midR)
              /\ ForwardSeq(m_fwd_items', m_rev_items')
                     = ForwardSeq(lop'.midF, lop'.midR)
              /\ NonNull(m_fwd_items', m_rev_items')
                     = NonNull(lop'.midF, lop'.midR)]_vars
\* remove(x) has returned true for an element the client holds and that
\* was in the list twice; the first slot was nulled and compacted away, the
\* second still holds x
C17_Witness ==
    /\ lop.kind = "remove" /\ lop.ret
    /\ ext[lop.e] /\ e_state[lop.e] = "alive"
    /\ Len(lop.midF) = 2 /\ lop.midF[1] = 0 /\ lop.midF[2] = lop.e
    /\ m_fwd_items = <<lop.e>>

(* ========================= refptr and weakptr ========================= *)

\* the targets' and weakptrs' fields as one value, with the last_unref
\* calls made so far in this step
PWorld == [st |-> t_state, rc |-> t_refcount, head |-> t_weak_head,
           w |-> wrefs, un |-> <<>>, fail |-> pfailed]
SetPWorld(P) ==
    /\ t_state' = P.st /\ t_refcount' = P.rc /\ t_weak_head' = P.head
    /\ wrefs' = P.w /\ p_unrefs' = P.un /\ pfailed' = P.fail

Alive(t) == t_state[t] \in {"owned", "guarded"}
\* a T* the client can pass: null or a pointer to a live object
RawPtrs == {0} \cup {t \in Targets : Alive(t)}

\* weakptr::reset, the walk "while (prior->next != this)" from p; 0 if the
\* walk runs off the end of the list
RECURSIVE Prior(_, _, _)
Prior(W, p, w) ==
    IF p = 0 THEN 0
    ELSE IF W[p].next = w THEN p ELSE Prior(W, W[p].next, w)

\* variant: only a record at the head of the list is unlinked
WeakUnlink_HeadOnly(P, w) ==
    LET t == P.w[w].m_ptr
    IN  IF t = 0 THEN P
        ELSE IF P.head[t] = w THEN [P EXCEPT !.head[t] = P.w[w].next]
        ELSE P
\* weakptr::reset, "remove from linked list"
WeakUnlink(P, w) ==
    LET t == P.w[w].m_ptr
    IN  IF t = 0 THEN P
        ELSE IF P.head[t] = w THEN [P EXCEPT !.head[t] = P.w[w].next]
        ELSE LET pr == Prior(P.w, P.head[t], w)
             IN  IF pr = 0 THEN [P EXCEPT !.fail = "weak_walk"]
                 ELSE [P EXCEPT !.w[pr].next = P.w[w].next]

\* weakptr::reset(ptr) on the weakptr w
WeakReset(P, w, t) ==
    LET P1 == WeakUnlink(P, w)
    IN  IF t # 0
        THEN [P1 EXCEPT !.w[w].m_ptr = t, !.w[w].next = P1.head[t],
                        !.head[t] = w]
        ELSE [P1 EXCEPT !.w[w].m_ptr = 0, !.w[w].next = 0]

\* ~weak_target resetting only the first weakptr of its list
WeakTargetDtor_HeadOnly(P, t) ==
    IF P.head[t] = 0 THEN P
    ELSE WeakReset(P, P.head[t], 0)
\* weak_target::~weak_target: while (m_weak_head) m_weak_head->reset()
RECURSIVE WeakTargetDtor(_, _)
WeakTargetDtor(P, t) ==
    IF P.head[t] = 0 THEN P
    ELSE WeakTargetDtor(WeakReset(P, P.head[t], 0), t)

\* the destructor of a target: ~weak_target, then ~refcounted with its
\* assert(m_refcount == 0)
TargetDtor(P, t) ==
    LET P1 == WeakTargetDtor(P, t)
    IN  [P1 EXCEPT !.st[t] = "destroyed",
                   !.fail = IF P1.rc[t] # 0 THEN "refcount_assert" ELSE @]

\* T::last_unref: ref_owned deletes the object, ref_guarded does nothing
TargetLastUnref(P, t) ==
    LET P1 == [P EXCEPT !.un = Append(@, t)]
    IN  IF P.st[t] = "owned" THEN TargetDtor(P1, t) ELSE P1

\* ref_base::reset taking a pointer without counting it
PAcquire_NoCount(P, t) == P
\* ref_base::reset, "if (ptr) ptr->m_refcount++"
PAcquire(P, t) == IF t = 0 THEN P ELSE [P EXCEPT !.rc[t] = @ + 1]
\* ref_base::reset, "if (m_ptr) { m_ptr->m_refcount--; ... last_unref() }"
PRelease(P, t) ==
    IF t = 0 THEN P
    ELSE LET P1 == [P EXCEPT !.rc[t] = @ - 1]
         IN  IF P1.rc[t] = 0 THEN TargetLastUnref(P1, t) ELSE P1

\* ref_base::reset giving up the old pointee before taking the new one
RefReset_ReleaseFirst(P, old, new) == PAcquire(PRelease(P, old), new)
\* ref_base::reset(ptr) of a reference whose m_ptr is old (m_ptr = ptr is
\* left to the caller)
RefReset(P, old, new) == PRelease(PAcquire(P, new), old)

\* what no call on a refptr or weakptr changes
RFrame == UNCHANGED <<accumVars, listVars>>

\* the refptr / weakptr variable that the client declares next
FreeRef(r) == ~srefs[r].live /\ \A j \in SRefs : j < r => srefs[j].live
FreeWeak(w) == ~wrefs[w].live /\ \A j \in WRefs : j < w => wrefs[j].live

\* history: the call kind(d, r) was made on the refptr d, which pointed
\* at old; was = the weakptrs that pointed at an object the call destroyed
Did(kind, d, r) ==
    pop' = [kind |-> kind, d |-> d, r |-> r,
            old |-> IF d \in SRefs THEN srefs[d].m_ptr ELSE 0,
            was |-> {w \in WRefs : /\ wrefs[w].m_ptr # 0
                                  /\ t_state[wrefs[w].m_ptr] # "destroyed"
                                  /\ t_state'[wrefs[w].m_ptr] = "destroyed"}]

\* new T(...), or an object that someone else owns comes to exist
TargetNew(t, kind) ==
    /\ pfailed = "none"
    /\ t_state[t] = "unborn" /\ \A u \in Targets : u < t => t_state[u] # "unborn"
    /\ t_state' = [t_state EXCEPT ![t] = kind]
    /\ p_unrefs' = <<>>
    /\ UNCHANGED <<t_refcount, t_weak_head, srefs, wrefs, pfailed>>
    /\ Did("other", 0, 0)
    /\ RFrame

\* the owner of a ref_guarded object destroys it
GuardedDestroy(t) ==
    /\ pfailed = "none"
    /\ t_state[t] = "guarded"
    /\ SetPWorld(TargetDtor(PWorld, t))
    /\ UNCHANGED srefs
    /\ Did("other", 0, 0)
    /\ RFrame

\* refptr(), explicit refptr(T *ptr): reset(ptr) on a null reference
SNew(r, p) ==
    /\ pfailed = "none"
    /\ FreeRef(r) /\ p \in RawPtrs
    /\ SetPWorld(RefReset(PWorld, 0, p))
    /\ srefs' = [srefs EXCEPT ![r] = [live |-> TRUE, m_ptr |-> p]]
    /\ Did("other", 0, 0)
    /\ RFrame

\* ref_base(const ref_base &r) { reset(r.m_ptr); }
SCopy(d, r) ==
    /\ pfailed = "none"
    /\ FreeRef(d) /\ srefs[r].live
    /\ SetPWorld(RefReset(PWorld, 0, srefs[r].m_ptr))
    /\ srefs' = [srefs EXCEPT ![d] = [live |-> TRUE, m_ptr |-> srefs[r].m_ptr]]
    /\ Did("other", 0, 0)
    /\ RFrame

\* ref_base(ref_base &&r) : m_ptr(r.m_ptr) { r.m_ptr = nullptr; }
SMove(d, r) ==
    /\ pfailed = "none"
    /\ FreeRef(d) /\ srefs[r].live
    /\ srefs' = [srefs EXCEPT ![d] = [live |-> TRUE, m_ptr |-> srefs[r].m_ptr],
                              ![r].m_ptr = 0]
    /\ SetPWorld(PWorld)
    /\ Did("move", d, r)
    /\ RFrame

\* ref_base::operator=(const ref_base &): util::reconstruct, that is
\* nothing if &self == &val, else ~ref_base() and the copy constructor
SAssign(d, r) ==
    /\ pfailed = "none"
    /\ srefs[d].live /\ srefs[r].live
    /\ IF d = r
       THEN SetPWorld(PWorld) /\ srefs' = srefs
       ELSE /\ SetPWorld(RefReset(RefReset(PWorld, srefs[d].m_ptr, 0),
                                  0, srefs[r].m_ptr))
            /\ srefs' = [srefs EXCEPT ![d].m_ptr = srefs[r].m_ptr]
    /\ Did("assign", d, r)
    /\ RFrame

\* ref_base::operator=(ref_base &&): util::reconstruct with the move
\* constructor
SMoveAssign(d, r) ==
    /\ pfailed = "none"
    /\ srefs[d].live /\ srefs[r].live
    /\ IF d = r
       THEN SetPWorld(PWorld) /\ srefs' = srefs
       ELSE /\ SetPWorld(RefReset(PWorld, srefs[d].m_ptr, 0))
            /\ srefs' = [srefs EXCEPT ![d].m_ptr = srefs[r].m_ptr,
                                      ![r].m_ptr = 0]
    /\ Did("moveassign", d, r)
    /\ RFrame

\* ref_base::reset(ptr)
SReset(r, p) ==
    /\ pfailed = "none"
    /\ srefs[r].live /\ p \in RawPtrs
    /\ SetPWorld(RefReset(PWorld, srefs[r].m_ptr, p))
    /\ srefs' = [srefs EXCEPT ![r].m_ptr = p]
    /\ Did("reset", r, p)
    /\ RFrame

\* ~ref_base() { reset(); }
SDestroy(r) ==
    /\ pfailed = "none"
    /\ srefs[r].live
    /\ SetPWorld(RefReset(PWorld, srefs[r].m_ptr, 0))
    /\ srefs' = [srefs EXCEPT ![r] = NoRef]
    /\ Did("other", 0, 0)
    /\ RFrame

\* the weakptr w comes to exist or ceases to
WLive(P, w, b) == [P EXCEPT !.w[w].live = b]

\* weakptr(), explicit weakptr(T *ptr), explicit weakptr(const refptr &)
WNew(w, p) ==
    /\ pfailed = "none"
    /\ FreeWeak(w) /\ p \in RawPtrs
    /\ SetPWorld(WeakReset(WLive(PWorld, w, TRUE), w, p))
    /\ UNCHANGED srefs
    /\ Did("other", 0, 0)
    /\ RFrame

\* weakptr(const weakptr &wp) { reset(wp.m_ptr); }
WCopy(w, v) ==
    /\ pfailed = "none"
    /\ FreeWeak(w) /\ wrefs[v].live
    /\ SetPWorld(WeakReset(WLive(PWorld, w, TRUE), w, wrefs[v].m_ptr))
    /\ UNCHANGED srefs
    /\ Did("other", 0, 0)
    /\ RFrame

\* weakptr::operator=(const weakptr &): util::reconstruct, that is nothing
\* if &self == &val, else ~weakptr() and the copy constructor
WAssign(w, v) ==
    /\ pfailed = "none"
    /\ wrefs[w].live /\ wrefs[v].live
    /\ IF w = v
       THEN SetPWorld(PWorld)
       ELSE SetPWorld(WeakReset(WeakReset(PWorld, w, 0), w, wrefs[v].m_ptr))
    /\ UNCHANGED srefs
    /\ Did("other", 0, 0)
    /\ RFrame

\* weakptr::reset(ptr)
WReset(w, p) ==
    /\ pfailed = "none"
    /\ wrefs[w].live /\ p \in RawPtrs
    /\ SetPWorld(WeakReset(PWorld, w, p))
    /\ UNCHANGED srefs
    /\ Did("other", 0, 0)
    /\ RFrame

\* ~weakptr() { reset(); }
WDestroy(w) ==
    /\ pfailed = "none"
    /\ wrefs[w].live
    /\ SetPWorld(WLive(WeakReset(PWorld, w, 0), w, FALSE))
    /\ UNCHANGED srefs
    /\ Did("other", 0, 0)
    /\ RFrame

\* a client of refptr: objects, owned or guarded, and every call on the
\* strong references to them
PtrNext ==
    \/ \E t \in Targets, kind \in {"owned", "guarded"} : TargetNew(t, kind)
    \/ \E t \in Targets : GuardedDestroy(t)
    \/ \E r \in SRefs, p \in Targets \cup {0} : SNew(r, p)
    \/ \E d, r \in SRefs : SCopy(d, r)
    \/ \E d, r \in SRefs : SMove(d, r)
    \/ \E d, r \in SRefs : SAssign(d, r)
    \/ \E d, r \in SRefs : SMoveAssign(d, r)
    \/ \E r \in SRefs, p \in Targets \cup {0} : SReset(r, p)
    \/ \E r \in SRefs : SDestroy(r)

SpecPtr == Init /\ [][PtrNext]_vars

\* a client of weakptr: objects, owned or guarded, strong references that
\* come and go, and every call on the weak references
WeakNext ==
    \/ \E t \in Targets, kind \in {"owned", "guarded"} : TargetNew(t, kind)
    \/ \E t \in Targets : GuardedDestroy(t)
    \/ \E r \in SRefs, p \in Targets \cup {0} : SNew(r, p)
    \/ \E r \in SRefs : SDestroy(r)
    \/ \E w \in WRefs, p \in Targets \cup {0} : WNew(w, p)
    \/ \E w, v \in WRefs : WCopy(w, v)
    \/ \E w, v \in WRefs : WAssign(w, v)
    \/ \E w \in WRefs, p \in Targets \cup {0} : WReset(w, p)
    \/ \E w \in WRefs : WDestroy(w)

SpecWeak == Init /\ [][WeakNext]_vars

\* where -- is to park the iterator it: one step against its direction from
\* m_idx, then on against its direction over null slots, within its bounds
C24_Before(it) ==
    FindValid(m_fwd_items, m_rev_items, it.m_start, it.m_end,
              it.m_idx - it.m_dir, -it.m_dir)

\* C24 (iterator decrement): -- moves the iterator one step opposite to its
\* direction and scans on in that opposite direction over null slots, so it
\* parks at the nearest non-null element before the current one within the
\* iterator's bounds, or at a sentinel if there is none.
C24_DecBack ==
    [][\A i \in Iters :
          IterDec(i) =>
              /\ iters'[i].m_val = C24_Before(iters[i]).m_val
              /\ iters'[i].m_idx =
                     IF C24_Before(iters[i]).m_val # 0
                     THEN C24_Before(iters[i]).m_idx
                     ELSE iters'[i].m_idx
              /\ C24_Before(iters[i]).m_val = 0 =>
                     iters'[i].m_idx \in {INT_MAX - 1, INT_MIN + 1}]_vars

\* the iterator is outside the bounds it captured
C25_Past(it) == it.m_idx \notin it.m_start..(it.m_end - 1)

\* iter::operator==: only the indices are compared
C25_Equal(a, b) == a.m_idx = b.m_idx

\* what end() and rend() return when called in this state
C25_EndNow ==
    FindValid(m_fwd_items, m_rev_items, StartIdx(m_rev_items),
              EndIdx(m_fwd_items), EndIdx(m_fwd_items), 1)
C25_REndNow ==
    FindValid(m_fwd_items, m_rev_items, StartIdx(m_rev_items),
              EndIdx(m_fwd_items), StartIdx(m_rev_items) - 1, -1)

\* an iterator outside its bounds is at its sentinel, names no element and
\* equals end() (rend() for a reverse one) called now
C25_AtSentinel ==
    \A i \in Iters :
        (iters[i].live /\ C25_Past(iters[i])) =>
            /\ iters[i].m_val = 0
            /\ iters[i].m_dir = 1 =>
                   /\ iters[i].m_idx = INT_MAX - 1
                   /\ C25_Equal(iters[i], C25_EndNow)
            /\ iters[i].m_dir = -1 =>
                   /\ iters[i].m_idx = INT_MIN + 1
                   /\ C25_Equal(iters[i], C25_REndNow)

\* ++ never takes m_idx out of the range of int, and leaves an iterator
\* that is at its sentinel there
C25_IncStays ==
    \A i \in Iters :
        IterInc(i) =>
            /\ iters[i].m_idx + iters[i].m_dir \in INT_MIN..INT_MAX
            /\ C25_Past(iters[i]) => iters'[i].m_idx = iters[i].m_idx

\* C25 (end-sentinel equality): a forward iterator past its end bound has
\* index INT_MAX - 1, a reverse one past its start bound INT_MIN + 1; it
\* compares equal to end() (rend()) obtained at any time, also after
\* elements were appended or prepended since it was created; a further ++
\* leaves it at the sentinel.
C25_EndSentinel == []C25_AtSentinel /\ [][C25_IncStays]_vars

\* a forward iterator that had two slots in its bounds is past them, and
\* an element has been appended since the iterator was created
C25_Witness ==
    /\ iters[1].live /\ iters[1].m_dir = 1
    /\ iters[1].m_idx = INT_MAX - 1
    /\ iters[1].m_end - iters[1].m_start = 2
    /\ iters[1].m_end < EndIdx(m_fwd_items)

\* the list's refcount is the number of its iterators and reverse views
C21_Count ==
    Usable =>
        l_refcount = views + Cardinality({i \in Iters : iters[i].live})

\* the list is destroyed, assigned from another list, cleared or moved from
C21_Whole ==
    ListDestroy \/ ListAssignCopy \/ ListAssignMove \/ ListClear \/ OtherMove

\* the call aborts in an assertion if the list has references and goes
\* through if it has none
C21_Asserted ==
    /\ l_refcount # 0 => lfailed' # "none"
    /\ l_refcount = 0 => lfailed' = "none"

\* C21 as stated: destroying the list, assigning to it (copy or move, from
\* any list), clearing it or moving from it ends in an assertion failure
\* when an iterator or reverse view of it exists (refcount != 0) and
\* succeeds when the refcount is 0.
C21_AllAssert ==
    /\ []C21_Count
    /\ [][(C21_Whole \/ ListAssignSelf) => C21_Asserted]_vars

\* C21, amended: destroying the list, assigning another list to it (copy or
\* move), clearing it or moving from it ends in an assertion failure when
\* an iterator or reverse view of it exists and succeeds when the refcount
\* is 0; assigning the list to itself, by copy or by move, does nothing and
\* fails no assertion whatever the refcount.
C21_AssertUnlessSelf ==
    /\ []C21_Count
    /\ [][/\ C21_Whole => C21_Asserted
          /\ ListAssignSelf =>
                 /\ lfailed' = "none"
                 /\ UNCHANGED <<m_fwd_items, m_rev_items, m_cached_size,
                                l_refcount, l_state, e_refcount>>]_vars

\* the program aborted in ~refcounted's assert while an iterator and a
\* reverse view of the list existed
C21_Witness ==
    /\ lfailed = "refcount_assert"
    /\ l_refcount = 2 /\ views = 1 /\ iters[1].live

\* ---------------------------------------------------------------------
\* claims: refptr and weakptr
\* ---------------------------------------------------------------------

\* the live strong references that point at the object t
Pointing(t) == {r \in SRefs : srefs[r].live /\ srefs[r].m_ptr = t}

\* every object's refcount is the number of live strong references to it
C18_Count == \A t \in Targets : t_refcount[t] = Cardinality(Pointing(t))

\* a move of r into d, by the move constructor or by move assignment
C18_IsMove(d, r) == SMove(d, r) \/ SMoveAssign(d, r)

\* the move leaves r null and the count of the object it moved as it was
C18_Kept(d, r) ==
    /\ srefs'[r].m_ptr = 0
    /\ srefs[r].m_ptr # 0 =>
           t_refcount'[srefs[r].m_ptr] = t_refcount[srefs[r].m_ptr]

\* the move of r into another reference d leaves r null and d with r's
\* pointer; a count changes only by the reference d held before
C18_Moved(d, r) ==
    /\ srefs'[r] = [live |-> TRUE, m_ptr |-> 0]
    /\ srefs'[d] = [live |-> TRUE, m_ptr |-> srefs[r].m_ptr]
    /\ \A x \in SRefs \ {d, r} : srefs'[x] = srefs[x]
    /\ \A t \in Targets :
           t_refcount'[t] =
               t_refcount[t] - (IF srefs[d].m_ptr = t THEN 1 ELSE 0)

\* C18 as stated: each object's refcount equals the number of live strong
\* references that point at it, and every move, by construction or by
\* assignment, leaves the source null and the count of the moved object
\* unchanged.
C18_MoveKeeps ==
    /\ []C18_Count
    /\ [][\A d, r \in SRefs : C18_IsMove(d, r) => C18_Kept(d, r)]_vars

\* C18, amended: each object's refcount equals the number of live strong
\* references that point at it; a move between two different references
\* leaves the source null and the destination with the source's pointer,
\* and changes a count only by releasing what the destination held before
\* (so the moved object's count drops by one when the destination already
\* pointed at it); a move assignment of a reference to itself changes
\* nothing and leaves it non-null.
C18_MoveTransfers ==
    /\ []C18_Count
    /\ [][\A d, r \in SRefs :
            /\ (d # r /\ C18_IsMove(d, r)) => C18_Moved(d, r)
            /\ SMoveAssign(r, r) =>
                   srefs' = srefs /\ t_refcount' = t_refcount]_vars

\* r was move-assigned to d: r is null, d points at an object with two
\* references, and the other object, which d gave up, had its last_unref
C18_Witness ==
    /\ pfailed = "none"
    /\ pop.kind = "moveassign" /\ pop.d # pop.r
    /\ srefs[pop.r] = [live |-> TRUE, m_ptr |-> 0]
    /\ srefs[pop.d].m_ptr # 0
    /\ t_refcount[srefs[pop.d].m_ptr] = 2
    /\ \E u \in Targets : u # srefs[pop.d].m_ptr /\ p_unrefs = <<u>>


\* how many times last_unref ran on t in the step that led here
Unrefs(t) == Cardinality({k \in 1..Len(p_unrefs) : p_unrefs[k] = t})

\* a step runs last_unref on t once if it takes t's count from 1 to 0, and
\* not at all otherwise; after it no strong reference points at t
C19_OnZero(t) ==
    /\ Unrefs(t)' = IF t_refcount[t] = 1 /\ t_refcount'[t] = 0 THEN 1 ELSE 0
    /\ t_refcount[t] > 1 => t_refcount'[t] > 0
    /\ Unrefs(t)' > 0 => {r \in SRefs : srefs'[r].live /\ srefs'[r].m_ptr = t} = {}

\* reset(p) with p the current pointee, copy assignment and move assignment
\* of a reference to itself
C19_SameCall(r) ==
    \/ srefs[r].m_ptr # 0 /\ SReset(r, srefs[r].m_ptr)
    \/ SAssign(r, r)
    \/ SMoveAssign(r, r)

\* an object is destroyed only by its owner or by its own last_unref, and
\* the last_unref of ref_guarded leaves it alive
C19_Destroyed(t) ==
    /\ (t_state[t] # "destroyed" /\ t_state'[t] = "destroyed") =>
           \/ GuardedDestroy(t)
           \/ t_state[t] = "owned" /\ Unrefs(t)' = 1
    /\ (t_state[t] = "guarded" /\ Unrefs(t)' > 0) => t_state'[t] = "guarded"

\* C19: last_unref runs on an object exactly once each time its refcount
\* goes from 1 to 0, and never while a strong reference to it exists;
\* reset(p) with p the current pointee and self-assignment leave the counts
\* unchanged and run no last_unref; reset itself destroys no object: an
\* object ends only in its own last_unref (ref_owned) or by its owner.
C19_LastUnref ==
    [][/\ \A t \in Targets : C19_OnZero(t) /\ C19_Destroyed(t)
       /\ \A r \in SRefs :
              C19_SameCall(r) =>
                  /\ t_refcount' = t_refcount /\ p_unrefs' = <<>>
                  /\ srefs' = srefs /\ t_state' = t_state]_vars

\* the copy assignment d = r made d give up the last reference to a guarded
\* object: its last_unref ran once, its count is 0 and it is still there
C19_Witness ==
    /\ pfailed = "none"
    /\ pop.kind = "assign" /\ pop.d # pop.r /\ pop.old # 0
    /\ p_unrefs = <<pop.old>>
    /\ t_refcount[pop.old] = 0
    /\ t_state[pop.old] = "guarded"
    /\ srefs[pop.d].m_ptr # 0 /\ t_refcount[srefs[pop.d].m_ptr] = 2


\* no weakptr points at a destroyed object
C20_NoDangling ==
    \A w \in WRefs :
        wrefs[w].m_ptr # 0 => t_state[wrefs[w].m_ptr] \in {"owned", "guarded"}

\* a step that destroys objects nulls the weakptrs that pointed at them and
\* leaves every other weakptr's pointer as it was
C20_NullsExactly ==
    LET gone == {t \in Targets : t_state[t] # "destroyed"
                                 /\ t_state'[t] = "destroyed"}
    IN  gone # {} =>
            \A w \in WRefs :
                /\ wrefs'[w].live = wrefs[w].live
                /\ wrefs'[w].m_ptr =
                       IF wrefs[w].m_ptr \in gone THEN 0 ELSE wrefs[w].m_ptr

\* C20: destroying an object sets to null exactly the weakptrs that point at
\* it at that moment, the weakptrs that point at other objects keep their
\* value, and no weakptr ever points at a destroyed object.
C20_AutoNull == []C20_NoDangling /\ [][C20_NullsExactly]_vars

\* the last step destroyed an object that two weakptrs pointed at: both are
\* null now, and a third weakptr still points at the other object
C20_Witness ==
    /\ pfailed = "none"
    /\ Cardinality(pop.was) = 2
    /\ \A w \in pop.was : wrefs[w] = [live |-> TRUE, m_ptr |-> 0, next |-> 0]
    /\ \E v \in WRefs \ pop.was :
           wrefs[v].m_ptr # 0 /\ t_state[wrefs[v].m_ptr] \in {"owned", "guarded"}

\* the first n records of the weak list that starts at the record w
RECURSIVE C28_Chain(_, _)
C28_Chain(w, n) ==
    IF w = 0 \/ n = 0 THEN <<>>
    ELSE <<w>> \o C28_Chain(wrefs[w].next, n - 1)

\* the weak list of the object t, cut after MaxWeak + 1 records
C28_List(t) == C28_Chain(t_weak_head[t], MaxWeak + 1)

\* the list of t ends within MaxWeak records, holds no record twice, and
\* holds exactly the weakptrs that exist and point at t
C28_WellFormed(t) ==
    LET L == C28_List(t)
    IN  /\ Len(L) <= MaxWeak
        /\ \A i, j \in 1..Len(L) : L[i] = L[j] => i = j
        /\ {L[i] : i \in 1..Len(L)}
               = {w \in WRefs : wrefs[w].live /\ wrefs[w].m_ptr = t}

\* C28 (weak list well-formedness): after any sequence of weakptr
\* construction, copy, assignment, reset(p) (p the current target
\* included) and destruction, the weak list of every object is acyclic and
\* holds exactly the weakptrs that point at the object, each once; the
\* walk in reset() always finds its record, and after its destructor an
\* object's list is empty.
C28_WeakListWellFormed ==
    /\ pfailed # "weak_walk"
    /\ \A t \in Targets : C28_WellFormed(t)
    /\ \A t \in Targets : t_state[t] = "destroyed" => t_weak_head[t] = 0
    /\ \A w \in WRefs : ~wrefs[w].live => wrefs[w] = NoWeak

\* the oldest weakptr stands before the youngest in the list of an object,
\* so it was linked again after the youngest was; the third weakptr is in
\* the list of the other object
C28_Witness ==
    /\ pfailed = "none"
    /\ \E t, u \in Targets :
           /\ t # u
           /\ C28_List(t) = <<1, 3>>
           /\ C28_List(u) = <<2>>

====
